---- MODULE Spec2Model ----
(***************************************************************************)
(* Verification model of the WeeklyStocks trading engine.                  *)
(*                                                                         *)
(*   SpecLive  ibkr_live_runner.py: monday_entries, monitor_loop and       *)
(*             friday_exit_all as run by run_week_cycle, with the broker   *)
(*             as environment.                                             *)
(*   SpecSafety  position_safety.py and the safety check of                *)
(*             enhanced_live_runner.py: the run_safety_monitor task and    *)
(*             the trader's _pre_trading_safety_check on one account.      *)
(*   SpecConn  connection_monitor.py and enhanced_live_runner.py: the      *)
(*             heartbeat, reconnection and the trader's main loop.         *)
(*   SpecCal   backtest_core.py: BacktestEngine.get_trading_weeks.         *)
(*   SpecMonitor  connection_monitor.py: a ConnectionMonitor on its own.   *)
(*   SpecEscalation  position_safety.py: the safety monitor task alone.    *)
(*   SpecReplay  backtest_core.py: BacktestEngine.run_backtest.            *)
(*   SpecRisk  position_safety.py risk scores and the regime filter of     *)
(*             ibkr_live_runner.py and vix_utils.py, as pure functions.    *)
(*                                                                         *)
(* Prices are fixed-point numbers in mills (1/1000 of a dollar); dates are *)
(* day numbers whose weekday is the number modulo 7 (0 = Monday).          *)
(***************************************************************************)
EXTENDS Integers, Sequences, FiniteSets, TLC

VARIABLES
    \* ---- ibkr_live_runner.py --------------------------------------------
    cfg,          \* config.json fields read by the live runner
    cands,        \* result of build_candidates: sequence of candidate records
    mainPc,       \* position of run_week_cycle (monday_entries / friday_exit_all)
    loopIdx,      \* index of the for loop the main task is in
    hedgeFlag,    \* monday_entries.hedge_flag
    totalAlloc,   \* monday_entries.total_alloc (number of allocated entries)
    positions,    \* LiveState.positions: symbols in insertion order
    pos,          \* the position dicts, by symbol
    hedge,        \* LiveState.hedge: 0 is None, else the short quantity
    exitSnap,     \* friday_exit_all: list(state.positions.items())
    entryOrder,   \* broker: status of each entry order
    fillPx,       \* broker: avgFillPrice of each entry order
    stopOrder,    \* broker: status of each linked stop order
    stopSent,     \* broker: stop prices received for each symbol, in order
    sellOrder,    \* broker: status of each flattening market SELL
    cancelCalled, \* whether ib.cancelOrder was called on the symbol's stop
    protectCalls, \* number of modify_stop(reason='protect_ER') calls per symbol
    trailCalls,   \* number of modify_stop(reason='trail_ratchet') calls per symbol
    sawER,        \* whether a monitor visit of the symbol saw last >= er_level
    modFails,     \* number of modify_stop calls whose ib.placeOrder raised
    failure,      \* what made run_week_cycle raise: <<kind, symbol>> or <<>>
    hedgeOrder,   \* broker: the hedge order in flight, [status, qty]
    monPc,        \* position of the monitor_loop task
    monSnap,      \* monitor_loop: list(state.positions.items()) of this tick
    monIdx,       \* monitor_loop: index in monSnap
    stopEvent,    \* asyncio.Event stop_event
    regime_ok,    \* monday_entries.regime_ok: "unset" before the regime check
    md_last,      \* monitor_loop.last of the latest visit of a symbol (-1: none yet)
    sellQty,      \* broker: quantity of each flattening market SELL
    \* ---- position_safety.py / enhanced_live_runner.py ---------------------
    mkt,          \* the market scenario that prices the account's positions
    pf,           \* ib.portfolio(): position (shares) of each symbol
    orders,       \* broker: market SELLs in flight per symbol, by the command
                  \* that placed them (all: close-all, losing: close-losing)
    mgr,          \* the PositionSafetyManager of each runner
    run,          \* each runner's place in execute_emergency_actions, and the
                  \* first effect ("sell" or "journal") of its latest escalation
    journal,      \* number of events the trader's journal holds (saturating)
    \* ---- connection_monitor.py / enhanced_live_runner.py ------------------
    ibConnected,        \* ib.isConnected() of the monitored connection
    connection_healthy, \* ConnectionMonitor.connection_healthy
    reconnect_attempts, \* ConnectionMonitor.reconnect_attempts
    is_monitoring,      \* ConnectionMonitor.is_monitoring
    cmPc,               \* position of the monitoring task
    callbacks,          \* which ConnectionMonitor objects have callbacks set
    trading_paused,     \* EnhancedWeeklyERTrader.trading_paused
    trPc,               \* position of run_enhanced_trading_system
    last_safety_check,  \* EnhancedWeeklyERTrader.last_safety_check is set
    resume,             \* where the run stands after the latest connection loss
    entryInLoss,        \* Monday entry logic started before trading was resumed
    disconnected_calls, \* on_disconnected_callback invocations since the
                        \* connection was last found healthy
    total_disconnections, \* connection_stats['total_disconnections']
    \* ---- backtest_core.py -------------------------------------------------
    start_date,   \* BacktestConfig.start_date, a day number
    end_date,     \* BacktestConfig.end_date, a day number
    weeks,        \* the list get_trading_weeks returned
    calPc,        \* "config" before the call, "returned" after it
    \* ---- us_trading_calendar.py -------------------------------------------
    holidays,     \* the day numbers holidays.UnitedStates contains
    live_week,    \* the dates the live runner computed for its week
    \* ---- backtest_core.py, the replay ------------------------------------
    data,         \* BacktestEngine.data: the price bars of each symbol
    config,       \* BacktestConfig: expected_return_pct and stop_loss_pct
    engine,       \* trades and weekly_selections of the latest engine
    results,      \* the BacktestResults of the runs made so far
    momentum,     \* the latest direct call of calculate_momentum
    \* ---- position_safety.py, the risk metrics ----------------------------
    risk_in,      \* the arguments of the risk computation
    risk_out      \* what the computation returned

liveVars == <<cfg, cands, mainPc, loopIdx, hedgeFlag, totalAlloc, positions, pos,
              hedge, exitSnap, entryOrder, fillPx, stopOrder, stopSent, sellOrder,
              cancelCalled, protectCalls, trailCalls, sawER, modFails, failure, hedgeOrder,
              monPc, monSnap, monIdx, stopEvent, regime_ok, md_last,
              sellQty>>

safetyVars == <<mkt, pf, orders, mgr, run, journal>>

conn == <<ibConnected, connection_healthy, reconnect_attempts, is_monitoring,
          cmPc, callbacks, trading_paused, trPc, last_safety_check, resume,
          entryInLoss, disconnected_calls, total_disconnections>>

cal == <<start_date, end_date, weeks, calPc, holidays, live_week>>

replay == <<data, config, engine, results, momentum>>

riskVars == <<risk_in, risk_out>>

aux == <<replay, riskVars>>

vars == <<liveVars, safetyVars, conn, cal, aux>>

Max(a, b) == IF a >= b THEN a ELSE b

Min(a, b) == IF a <= b THEN a ELSE b

(***************************************************************************)
(* ibkr_live_runner.py                                                     *)
(***************************************************************************)

Syms == {"AAA", "BBB"}

\* bars[-1].close values of the candidates, in mills
LastCloses == {10000}

\* SPY prices reqMktDataAsync may return to open_spy_hedge; 0 stands for none
SpyPrices == {0, 400000}

\* the ATR values of the two candidates, in ranking order
AtrPairs == {<<150, 250>>, <<0, 150>>, <<250, 0>>}

\* config.json: trailing_mode, stop_mode, expected_return_mode, enable_hedge
Configs ==
    { [trailing_mode |-> "atr", stop_mode |-> "atr",
       expected_return_mode |-> "fixed", enable_hedge |-> FALSE],
      [trailing_mode |-> "atr", stop_mode |-> "fixed",
       expected_return_mode |-> "atr", enable_hedge |-> TRUE],
      [trailing_mode |-> "percent", stop_mode |-> "atr",
       expected_return_mode |-> "atr", enable_hedge |-> TRUE],
      [trailing_mode |-> "percent", stop_mode |-> "fixed",
       expected_return_mode |-> "fixed", enable_hedge |-> FALSE] }

\* avgFillPrice values the broker may report; 0 stands for a missing value
FillPrices == {0, 9950}

\* last prices reqMktDataAsync may return; 0 stands for no last and no close
LastPrices == {0, 10150, 10200, 10300}

\* cap on the messages kept per stop order
MaxStopMsgs == 4

\* cap on the number of modify_stop calls that fail in one run
MaxModifyFailures == 1

CapitalPerTrade == 10000000

StopFixedPctBp == 100

StopAtrMultX10 == 15

TrailingPctBp == 200

TrailingAtrMultX10 == 10

HedgeRatioX10 == 10

FixedErBp == 200

AtrKX10 == 12

MinErBp == 50

\* round(x, 2): mills to the nearest cent, ties to the even cent
Round2(x) ==
    LET q == x \div 10
        r == x % 10
    IN  IF r < 5 THEN q * 10
        ELSE IF r > 5 THEN (q + 1) * 10
        ELSE IF q % 2 = 0 THEN q * 10 ELSE (q + 1) * 10

\* expected_return_for, in basis points ("file" mode needs expected_returns.csv
\* and falls through to the fixed value when the symbol is not in it)
ExpectedReturnFor(px, atr, mode) ==
    IF mode = "atr" /\ atr > 0 /\ px > 0
    THEN Max(MinErBp, (AtrKX10 * atr * 1000) \div px)
    ELSE FixedErBp

\* monday_entries: qty = max(1, int(cap / px))
EntryQty(px) == Max(1, CapitalPerTrade \div px)

\* monday_entries: the initial stop level
InitialStop(px, atr, mode) ==
    IF mode = "fixed"
    THEN (px * (10000 - StopFixedPctBp)) \div 10000
    ELSE px - (StopAtrMultX10 * (IF atr > 0 THEN atr ELSE px \div 100)) \div 10

\* monday_entries: entry_price = float(res["entry_price"] or px)
EntryPrice(fill, px) == IF fill # 0 THEN fill ELSE px

ErLevel(entry, erBp) == (entry * (10000 + erBp)) \div 10000

\* monitor_loop: the trailing candidate; 0 stands for None
TrailCandidate(p, mode) ==
    IF mode = "percent"
    THEN (p.entry_price * (10000 + TrailingPctBp)) \div 10000
    ELSE IF p.atr > 0 THEN p.entry_price + (TrailingAtrMultX10 * p.atr) \div 10
         ELSE 0

\* the ER test with the latch left out
ERProtectDue_NoLatch(p, last) == last >= p.er_level

\* monitor_loop: (not p["target_hit"]) and last >= p["er_level"]
ERProtectDue(p, last) == (~p.target_hit) /\ last >= p.er_level

\* a ratchet that does not compare the candidate with the trail level
RatchetDue_NoCompare(p, last, candidate) == candidate # 0 /\ last >= candidate

\* monitor_loop: candidate and last >= candidate and candidate > p["trail_level"]
RatchetDue(p, last, candidate) ==
    candidate # 0 /\ last >= candidate /\ candidate > p.trail_level

\* the bar series hist_daily_closes may return for the regime proxy, as
\* closes in dollars: none, one bar short of what the average needs, rising,
\* falling, flat, and a dip on the last day of a rise
SpyBars ==
    {<<>>, <<400, 401, 402, 403, 404>>,
     <<400, 404, 408, 412, 416, 420>>, <<420, 416, 412, 408, 404, 400>>,
     <<400, 400, 400, 400, 400, 400>>, <<400, 410, 420, 430, 440, 420>>}

\* what the request for the volatility index gives: an exception, no bar,
\* or bars whose last close is below, at or above the ceiling
VixBars ==
    {[status |-> "raises", bars |-> <<>>], [status |-> "ok", bars |-> <<>>],
     [status |-> "ok", bars |-> <<30, 20>>], [status |-> "ok", bars |-> <<20, 25>>],
     [status |-> "ok", bars |-> <<20, 30>>]}

\* arguments of spy_regime_ok: regime_ema_len and regime_max_vix of the
\* config (0: not configured) and what the two data requests return
RegimeArgs ==
    [kind : {"regime"}, ema_len : {0, 3}, max_vix : {0, 25},
     spy : SpyBars, vix : VixBars]

RECURSIVE Pow(_, _)
Pow(b, n) == IF n = 0 THEN 1 ELSE b * Pow(b, n - 1)

\* ema: series.ewm(span=span, adjust=False).mean() up to bar t, times
\* (span + 1)^(t - 1) so that the recursion y_t = (1 - a) y_(t-1) + a x_t
\* with a = 2 / (span + 1) stays in the integers
RECURSIVE ema_scaled(_, _, _)
ema_scaled(closes, span, t) ==
    IF t = 1 THEN closes[1]
    ELSE (span - 1) * ema_scaled(closes, span, t - 1)
         + 2 * closes[t] * Pow(span + 1, t - 2)

\* spy_regime_ok: closes.iloc[-1] > e
close_above_ema(closes, ema_len) ==
    closes[Len(closes)] * Pow(ema_len + 1, Len(closes) - 1)
        > ema_scaled(closes, ema_len, Len(closes))

\* a volatility check that blocks when there is no bar to compare
vix_check_closed(vb, max_vix) == vb # <<>> /\ vb[Len(vb)] <= max_vix

\* spy_regime_ok: if vb: ok = ok and (v_last <= max_vix)
vix_check(vb, max_vix) == vb # <<>> => vb[Len(vb)] <= max_vix

\* spy_regime_ok; an exception of the volatility request is caught and
\* leaves ok as it was
spy_regime_ok(ema_len, max_vix, bars, vix) ==
    LET ok == IF ema_len > 0 /\ Len(bars) > ema_len + 2
              THEN close_above_ema(bars, ema_len)
              ELSE TRUE
    IN  IF ok /\ max_vix > 0 /\ vix.status = "ok"
        THEN vix_check(vix.bars, max_vix)
        ELSE ok

\* arguments of check_vix_regime: vix_level (<<>>: None) and max_vix
\* (0: None or zero)
VixRegimeArgs ==
    [kind : {"vix_regime"}, vix_level : {<<>>, <<20>>, <<25>>, <<30>>},
     max_vix : {0, 25}]

\* vix_utils.check_vix_regime: the vix_ok field of the result
check_vix_regime(vix_level, max_vix) ==
    IF max_vix = 0 THEN TRUE
    ELSE IF vix_level = <<>> THEN TRUE
    ELSE vix_level[1] <= max_vix


NoPos == [registered |-> FALSE, entry_price |-> 0, qty |-> 0, atr |-> 0,
          er_level |-> 0, target_hit |-> FALSE, trail_level |-> 0]

CandOf(s) == CHOOSE c \in {cands[i] : i \in DOMAIN cands} : c.symbol = s

LiveFresh ==
    /\ mainPc = "regime"
    /\ loopIdx = 0
    /\ hedgeFlag = FALSE
    /\ totalAlloc = 0
    /\ positions = <<>>
    /\ pos = [s \in Syms |-> NoPos]
    /\ hedge = 0
    /\ exitSnap = <<>>
    /\ entryOrder = [s \in Syms |-> "none"]
    /\ fillPx = [s \in Syms |-> 0]
    /\ stopOrder = [s \in Syms |-> "none"]
    /\ stopSent = [s \in Syms |-> <<>>]
    /\ sellOrder = [s \in Syms |-> "none"]
    /\ cancelCalled = [s \in Syms |-> FALSE]
    /\ protectCalls = [s \in Syms |-> 0]
    /\ trailCalls = [s \in Syms |-> 0]
    /\ sawER = [s \in Syms |-> FALSE]
    /\ modFails = 0
    /\ failure = <<>>
    /\ hedgeOrder = [status |-> "none", qty |-> 0]
    /\ monPc = "loop_top"
    /\ monSnap = <<>>
    /\ monIdx = 0
    /\ stopEvent = FALSE
    /\ regime_ok = "unset"
    /\ md_last = -1
    /\ sellQty = [s \in Syms |-> 0]

\* the live runner is not part of the run
LiveIdle ==
    /\ cfg = [trailing_mode |-> "atr", stop_mode |-> "atr",
              expected_return_mode |-> "fixed", enable_hedge |-> FALSE]
    /\ cands = <<>>
    /\ LiveFresh

\* ---------------------------------------------------------------------------
\* position_safety.py: the account, the limits and the safety check
\* ---------------------------------------------------------------------------

\* the two callers of the safety manager: run_safety_monitor (a task of its
\* own, with its own PositionSafetyManager) and the trader's main loop
Runners == {"task", "trader"}

\* ib.portfolio(), in the order the broker reports the items
Portfolio == <<"AAPL", "XOM">>

SafetySyms == {"AAPL", "XOM"}

\* shares bought per symbol and their average cost (dollars)
Holding == [AAPL |-> 400, XOM |-> 300]

AverageCost == [AAPL |-> 100, XOM |-> 100]

Markets == {"flat", "crash"}

\* scenarios in which the two positions lose unequal amounts
UnevenMarkets == {"slide", "dip"}

\* PortfolioItem.marketPrice under each market scenario (dollars)
MarketPrice(m) ==
    CASE m = "flat" -> [AAPL |-> 100, XOM |-> 100]
      [] m = "crash" -> [AAPL |-> 80, XOM |-> 80]
      [] m = "slide" -> [AAPL |-> 97, XOM |-> 60]
      [] m = "dip" -> [AAPL |-> 99, XOM |-> 60]

\* accountSummary: TotalCashValue (dollars)
AccountSummary == [TotalCashValue |-> 50000]

\* SafetyLimits defaults
max_position_value == 50000

max_portfolio_value == 500000

max_daily_loss == 10000

max_position_concentration_pct == 15

max_sector_concentration_pct == 30

emergency_stop_loss_pct == 10

min_cash_reserve == 10000

\* _close_losing_positions: unrealizedPNL below minus this is a losing position
losing_threshold == 1000

\* SectorClassifier.get_sector
get_sector(s) ==
    CASE s = "AAPL" -> "Technology"
      [] s = "XOM"  -> "Energy"
      [] OTHER      -> "Other"

RECURSIVE SumSeq(_)
SumSeq(q) == IF q = <<>> THEN 0 ELSE Head(q) + SumSeq(Tail(q))

MapSeq(F(_), q) == [i \in 1..Len(q) |-> F(q[i])]

\* PortfolioItem.marketValue and PortfolioItem.unrealizedPNL
MarketValue(p, m, s) == p[s] * MarketPrice(m)[s]

UnrealizedPNL(p, m, s) == p[s] * (MarketPrice(m)[s] - AverageCost[s])

\* perform_safety_check: the items with a non-zero position (position_risks)
PositionRisks(p) == SelectSeq(Portfolio, LAMBDA s : p[s] # 0)

\* _calculate_portfolio_risk: total_value, daily_pnl
TotalValue(p, m) ==
    SumSeq(MapSeq(LAMBDA s : MarketValue(p, m, s), PositionRisks(p)))

DailyPnl(p, m) ==
    SumSeq(MapSeq(LAMBDA s : UnrealizedPNL(p, m, s), PositionRisks(p)))

\* _calculate_portfolio_risk: sector_values, keys in order of first appearance
SectorKeys(p) ==
    LET risks == PositionRisks(p)
        firsts == {i \in 1..Len(risks) :
                     \A j \in 1..(i - 1) :
                         get_sector(risks[j]) # get_sector(risks[i])}
    IN  MapSeq(get_sector,
               SelectSeq(risks, LAMBDA s : \E i \in firsts : risks[i] = s))

SectorValue(p, m, sector) ==
    SumSeq(MapSeq(LAMBDA s : MarketValue(p, m, s),
                  SelectSeq(PositionRisks(p), LAMBDA s : get_sector(s) = sector)))

\* x / total > pct / 100, as _calculate_portfolio_risk divides (total > 0)
ShareAbove(x, total, pct) == total > 0 /\ x * 100 > pct * total

\* (total - start) / start < -pct / 100 with start # 0
LossBelow(total, start, pct) ==
    IF start > 0 THEN (total - start) * 100 < -(pct * start)
                 ELSE (total - start) * 100 > -(pct * start)

Violation(type, severity) == [type |-> type, severity |-> severity]

If(c, v) == IF c THEN <<v>> ELSE <<>>

\* one violation for every position above the limit
concentration_violation_each(values) ==
    SelectSeq([i \in 1..Len(values) |->
                  IF ShareAbove(values[i], SumSeq(values),
                                max_position_concentration_pct)
                  THEN Violation("position_concentration_exceeded", "MEDIUM")
                  ELSE Violation("none", "NONE")],
              LAMBDA v : v.type # "none")

\* _calculate_portfolio_risk and _check_safety_violations on the market
\* values of position_risks: max_position_concentration is the largest
\* market_value / total_value (0 when total_value <= 0 or there is no
\* position), compared with limits.max_position_concentration
concentration_violation(values) ==
    If(\E i \in 1..Len(values) :
          ShareAbove(values[i], SumSeq(values), max_position_concentration_pct),
       Violation("position_concentration_exceeded", "MEDIUM"))

\* _check_safety_violations, with self.daily_start_value as it is when the
\* check runs: m is a manager record
_check_safety_violations(p, mk, m) ==
    LET total == TotalValue(p, mk)
        start_truthy == m.daily_start_set /\ m.daily_start_value # 0
    IN  If(total > max_portfolio_value,
           Violation("portfolio_value_exceeded", "HIGH"))
        \o If(start_truthy /\ DailyPnl(p, mk) < -max_daily_loss,
              Violation("daily_loss_exceeded", "CRITICAL"))
        \o If(start_truthy
              /\ LossBelow(total, m.daily_start_value, emergency_stop_loss_pct),
              Violation("emergency_stop_triggered", "CRITICAL"))
        \o concentration_violation(MapSeq(LAMBDA s : MarketValue(p, mk, s),
                                          PositionRisks(p)))
        \o SelectSeq(MapSeq(LAMBDA sec :
                        IF ShareAbove(SectorValue(p, mk, sec), total,
                                      max_sector_concentration_pct)
                        THEN Violation("sector_concentration_exceeded", "MEDIUM")
                        ELSE Violation("none", "NONE"),
                        SectorKeys(p)),
                     LAMBDA v : v.type # "none")
        \o SelectSeq(MapSeq(LAMBDA s :
                        IF MarketValue(p, mk, s) > max_position_value
                        THEN Violation("position_value_exceeded", "MEDIUM")
                        ELSE Violation("none", "NONE"),
                        PositionRisks(p)),
                     LAMBDA v : v.type # "none")
        \o If(AccountSummary.TotalCashValue < min_cash_reserve,
              Violation("insufficient_cash_reserve", "LOW"))

\* perform_safety_check: the manager after the check (daily_start_value is
\* set from the first check's total, after the violations are computed)
perform_safety_check(p, mk, m) ==
    IF m.daily_start_set THEN m
    ELSE [daily_start_set |-> TRUE, daily_start_value |-> TotalValue(p, mk)]

CriticalOf(violations) == SelectSeq(violations, LAMBDA v : v.severity = "CRITICAL")

HasType(violations, type) == \E i \in 1..Len(violations) : violations[i].type = type

\* PositionSafetyManager.__init__
NewManager == [daily_start_set |-> FALSE, daily_start_value |-> 0]

\* no safety check has reported yet
NoReport == [checked |-> FALSE, daily_pnl |-> 0,
             unrealized_pnl |-> [s \in SafetySyms |-> 0], long |-> {},
             violations |-> <<>>]

\* the report of perform_safety_check: portfolio_risk.daily_pnl, the
\* unrealized_pnl of position_risks, the long positions, the violations
Report(p, mk, m) ==
    [checked |-> TRUE, daily_pnl |-> DailyPnl(p, mk),
     unrealized_pnl |-> [s \in SafetySyms |->
                            IF p[s] # 0 THEN UnrealizedPNL(p, mk, s) ELSE 0],
     long |-> {s \in SafetySyms : p[s] > 0},
     violations |-> _check_safety_violations(p, mk, m)]

\* a SELL as closed_positions lists it, under the action that placed it
Sold(s, action) == [symbol |-> s, action |-> action]

RunnerIdle == [pc |-> "idle", snap |-> <<>>, idx |-> 0, first |-> "none",
               report |-> NoReport, sold |-> <<>>]

NoOrders == [s \in SafetySyms |-> [all |-> 0, losing |-> 0]]

\* the safety monitor is not part of the run
SafetyIdle ==
    /\ mkt = "flat"
    /\ pf = [s \in SafetySyms |-> 0]
    /\ orders = NoOrders
    /\ mgr = [r \in Runners |-> NewManager]
    /\ run = [r \in Runners |-> RunnerIdle]
    /\ journal = 0

\* ---------------------------------------------------------------------------
\* connection_monitor.py and the callbacks of enhanced_live_runner.py
\* ---------------------------------------------------------------------------

\* ConnectionConfig.max_reconnect_attempts as EnhancedWeeklyERTrader sets it
max_reconnect_attempts == 5

\* the ConnectionMonitor that owns the connection (the one the async with
\* statement enters) and the one of the second RobustIBConnection, robust_conn
Monitors == {"live", "robust_conn"}

\* what the trader's safety check reports
SafetyOutcomes == {"error", "critical", "noncritical", "clean"}

\* datetime.now() as _execute_trading_cycle reads it
CycleDays == {"closed", "monday", "midweek", "friday"}

\* the state after the latest loss in which trading has not been resumed
NotResumed == {"lost", "reconnected", "checked_bad"}

\* on_disconnected and _pause_trading_operations: trading_paused afterwards
on_disconnected == TRUE

\* on_reconnected and _resume_trading_operations: trading_paused afterwards.
\* on_reconnected clears the flag before the safety check; the check's
\* report has no violations entry when it is clean or an error
on_reconnected(outcome) ==
    LET cleared == FALSE
    IN  IF outcome \in {"clean", "error"} THEN FALSE ELSE cleared

\* the standing of a run whose fresh safety check reported outcome
Checked(outcome) ==
    IF outcome \in {"error", "critical"} THEN "checked_bad" ELSE "checked_ok"

\* state after RobustIBConnection.__aenter__: connected and monitoring
ConnFresh ==
    /\ ibConnected = TRUE
    /\ connection_healthy = TRUE
    /\ reconnect_attempts = 0
    /\ is_monitoring = TRUE
    /\ cmPc = "sleep"
    /\ callbacks = [m \in Monitors |-> FALSE]
    /\ trading_paused = FALSE
    /\ trPc = "start"
    /\ last_safety_check = FALSE
    /\ resume = "none"
    /\ entryInLoss = FALSE
    /\ disconnected_calls = 0
    /\ total_disconnections = 0

\* the enhanced runner is not part of the run
ConnIdle ==
    /\ ibConnected = FALSE
    /\ connection_healthy = FALSE
    /\ reconnect_attempts = 0
    /\ is_monitoring = FALSE
    /\ cmPc = "sleep"
    /\ callbacks = [m \in Monitors |-> FALSE]
    /\ trading_paused = FALSE
    /\ trPc = "start"
    /\ last_safety_check = FALSE
    /\ resume = "none"
    /\ entryInLoss = FALSE
    /\ disconnected_calls = 0
    /\ total_disconnections = 0

\* ---------------------------------------------------------------------------
\* backtest_core.py: BacktestEngine.get_trading_weeks
\* ---------------------------------------------------------------------------

\* Timestamp.weekday(): 0 is Monday, 6 is Sunday
weekday(d) == d % 7

\* a step from a Friday that skips the following week
next_monday_skipping(friday) == friday + 10

\* friday + dt.timedelta(days=3): the Monday after a Friday
next_monday(friday) == friday + 3

\* the while loop of get_trading_weeks, from current with the weeks so far
RECURSIVE complete_weeks(_, _, _)
complete_weeks(current, end, found) ==
    IF current > end THEN found
    ELSE LET monday == IF weekday(current) = 0 THEN current
                       ELSE current + (7 - weekday(current))
             friday == monday + 4
         IN  IF monday > end THEN found
             ELSE IF friday <= end
             THEN complete_weeks(next_monday(friday), end,
                                 Append(found, <<monday, friday>>))
             ELSE IF monday <= end THEN Append(found, <<monday, end>>)
             ELSE found

\* the single-week rule switched off
single_week_never(start, end) == FALSE

\* get_trading_weeks: (end - start).days <= 7
single_week(start, end) == end - start <= 7

get_trading_weeks(start, end) ==
    IF single_week(start, end) THEN << <<start, end>> >>
    ELSE LET days_to_friday == 4 - weekday(start)
             friday_same_week == start + days_to_friday
             partial == /\ weekday(start) # 0
                        /\ days_to_friday >= 0
                        /\ friday_same_week <= end
             found == complete_weeks(
                          IF partial THEN next_monday(friday_same_week) ELSE start,
                          end,
                          IF partial THEN << <<start, friday_same_week>> >>
                                     ELSE <<>>)
         IN  IF found = <<>> /\ end - start >= 0 THEN << <<start, end>> >>
             ELSE found

\* us_trading_calendar.is_us_trading_day, h the holiday calendar
is_us_trading_day(d, h) == weekday(d) < 5 /\ d \notin h

\* us_trading_calendar.next_us_trading_day
RECURSIVE next_us_trading_day(_, _)
next_us_trading_day(d, h) ==
    IF is_us_trading_day(d, h) THEN d ELSE next_us_trading_day(d + 1, h)

\* us_trading_calendar.next_monday_trading_date; (0 - weekday) % 7 days ahead
next_monday_trading_date(ref, h) ==
    LET days_ahead == (7 - weekday(ref)) % 7
        monday == ref + days_ahead
    IN  IF is_us_trading_day(monday, h) THEN monday
        ELSE next_us_trading_day(monday + 1, h)

\* the while loop of friday_of_week from f
RECURSIVE step_back(_, _)
step_back(f, h) ==
    IF ~is_us_trading_day(f, h) \/ weekday(f) < 0 \/ weekday(f) > 4
    THEN step_back(f - 1, h)
    ELSE f

\* us_trading_calendar.friday_of_week
friday_of_week(monday_date, h) == step_back(monday_date + 4, h)

\* the live runner has computed no date yet
NoLiveWeek == [pc |-> "start", monday |-> 0, friday |-> 0, entry |-> 0]

\* ---------------------------------------------------------------------------
\* backtest_core.py: the replay of the weeks. Prices are whole dollars,
\* percentages are hundredths of a percent
\* ---------------------------------------------------------------------------

\* BacktestConfig.symbols, in the order of the configuration
Universe == <<"S1", "S2", "S3", "S4", "S5", "S6">>

\* BacktestConfig.capital_per_trade
capital_per_trade == 10000

\* BacktestConfig.commission_per_trade
commission_per_trade == 1

\* calculate_momentum: days = 5
momentum_days == 5

\* run_backtest: rankings[:min(5, len(rankings))]
top_count == 5

Symbols == {Universe[i] : i \in 1..Len(Universe)}

\* the position of a symbol in the configured universe
UniverseIndex(symbol) == CHOOSE i \in 1..Len(Universe) : Universe[i] = symbol

Bar(day, open, close) == [day |-> day, Open |-> open, Close |-> close]

\* the daily bars a download can hold for a symbol over two weeks: a rising
\* week and a quiet one, a falling week and a quiet one, a single bar in the
\* first week and two bars in the second
Series(shape) ==
    CASE shape = "up" ->
           << Bar(0, 100, 100), Bar(1, 100, 102), Bar(2, 102, 104),
              Bar(3, 104, 106), Bar(4, 106, 110),
              Bar(7, 100, 100), Bar(8, 100, 100), Bar(9, 100, 100),
              Bar(10, 100, 100), Bar(11, 100, 101) >>
      [] shape = "down" ->
           << Bar(0, 100, 100), Bar(1, 100, 99), Bar(2, 99, 98),
              Bar(3, 98, 97), Bar(4, 97, 95),
              Bar(7, 100, 100), Bar(8, 100, 100), Bar(9, 100, 100),
              Bar(10, 100, 100), Bar(11, 100, 99) >>
      [] shape = "thin" ->
           << Bar(2, 100, 103), Bar(7, 100, 100), Bar(8, 100, 101) >>

Shapes == {"up", "down", "thin"}

\* data[(data.index >= from) & (data.index <= to)]
between(series, from, to) ==
    SelectSeq(series, LAMBDA b : b.day >= from /\ b.day <= to)

\* calculate_momentum(prices, days = 5), in hundredths of a percent
calculate_momentum(prices) ==
    LET available_days == Min(momentum_days, Len(prices) - 1)
    IN  IF available_days < 1 THEN 0
        ELSE LET current_price == prices[Len(prices)]
                 past_price == prices[Len(prices) - available_days]
             IN  ((current_price - past_price) * 10000) \div past_price

\* run_backtest: the week's bars are enough for one bar too few
rankable_from_one(week_data) == Len(week_data) >= 1

\* run_backtest: not (len(week_data) < 2)
rankable(week_data) == Len(week_data) >= 2

Closes(bars) == [i \in 1..Len(bars) |-> bars[i].Close]

\* the loop over self.data.items() that builds rankings, from symbol i on
RECURSIVE rankings_from(_, _, _, _)
rankings_from(d, i, monday, friday) ==
    IF i > Len(Universe) THEN <<>>
    ELSE LET symbol == Universe[i]
             week_data == between(d[symbol], monday, friday)
             rest == rankings_from(d, i + 1, monday, friday)
         IN  IF ~rankable(week_data) THEN rest
             ELSE << [symbol |-> symbol,
                      momentum |-> calculate_momentum(Closes(week_data))] >>
                  \o rest

\* a sort by descending score that puts the later of two equal scores first
sort_unstable(r) ==
    LET n == Len(r)
        place(i) == 1 + Cardinality({j \in 1..n :
                         \/ r[j].momentum > r[i].momentum
                         \/ (r[j].momentum = r[i].momentum /\ j > i)})
    IN  [k \in 1..n |-> r[CHOOSE i \in 1..n : place(i) = k]]

\* rankings.sort(key=lambda x: x[1], reverse=True): list.sort is stable, and
\* with reverse=True equal keys keep their original order
sort_reverse(r) ==
    LET n == Len(r)
        place(i) == 1 + Cardinality({j \in 1..n :
                         \/ r[j].momentum > r[i].momentum
                         \/ (r[j].momentum = r[i].momentum /\ j < i)})
    IN  [k \in 1..n |-> r[CHOOSE i \in 1..n : place(i) = k]]

\* rankings[:min(5, len(rankings))]
selected_stocks(r) == SubSeq(r, 1, Min(top_count, Len(r)))

\* simulate_trade without its two limits
uncapped(raw, c) == raw

\* simulate_trade: the expected-return exit, then the stop-loss exit
capped(raw, c) ==
    LET after_target == IF raw >= c.expected_return_pct
                        THEN c.expected_return_pct ELSE raw
    IN  IF after_target <= -c.stop_loss_pct THEN -c.stop_loss_pct
        ELSE after_target

\* (exit_price - entry_price) / entry_price * 100
raw_return(entry_price, exit_price) ==
    ((exit_price - entry_price) * 10000) \div entry_price

\* simulate_trade: the trade record, or nothing where the code returns None
simulate_trade(d, c, symbol, entry_date, exit_date) ==
    LET entry_data == SelectSeq(d[symbol], LAMBDA b : b.day >= entry_date)
        exit_data == SelectSeq(d[symbol], LAMBDA b : b.day <= exit_date)
    IN  IF entry_data = <<>> \/ exit_data = <<>> THEN <<>>
        ELSE LET entry_price == entry_data[1].Open
                 exit_price == exit_data[Len(exit_data)].Close
                 raw == raw_return(entry_price, exit_price)
                 return_pct == capped(raw, c)
             IN  << [symbol |-> symbol, entry_date |-> entry_date,
                     exit_date |-> exit_date, entry_price |-> entry_price,
                     exit_price |-> exit_price,
                     return_pct |-> return_pct,
                     profit_loss |-> (return_pct * capital_per_trade) \div 10000
                                     - commission_per_trade] >>

\* the loop over selected_stocks that appends the trades
RECURSIVE simulate_all(_, _, _, _, _)
simulate_all(d, c, selected, monday, friday) ==
    IF selected = <<>> THEN <<>>
    ELSE simulate_trade(d, c, Head(selected).symbol, monday, friday)
         \o simulate_all(d, c, Tail(selected), monday, friday)

\* every trade recorded so far, not the week's
LastN_All(q, n) == q

\* self.trades[-n:]
LastN(q, n) == SubSeq(q, Max(1, Len(q) - n + 1), Len(q))

ProfitLoss(trades) == [i \in 1..Len(trades) |-> trades[i].profit_loss]

\* one pass of the loop over the weeks; st holds self.trades,
\* self.weekly_selections, equity_values and portfolio_value
process_week(d, c, st, week) ==
    LET monday == week[1]
        friday == week[2]
        rankings == rankings_from(d, 1, monday, friday)
        selected == selected_stocks(sort_reverse(rankings))
        trades == st.trades \o simulate_all(d, c, selected, monday, friday)
        week_pnl_dollars == SumSeq(ProfitLoss(LastN(trades, Len(selected))))
        portfolio_value == st.portfolio_value + week_pnl_dollars
    IN  IF rankings = <<>> THEN st
        ELSE [trades |-> trades,
              weekly_selections |->
                  Append(st.weekly_selections,
                         [week |-> week, date |-> monday, stocks |-> selected]),
              equity_values |->
                  Append(st.equity_values,
                         [date |-> friday, equity |-> portfolio_value]),
              portfolio_value |-> portfolio_value]

RECURSIVE process_weeks(_, _, _, _)
process_weeks(d, c, st, wks) ==
    IF wks = <<>> THEN st
    ELSE process_weeks(d, c, process_week(d, c, st, Head(wks)), Tail(wks))

\* BacktestEngine.__init__: no trade and no selection yet
EmptyEngine == [trades |-> <<>>, weekly_selections |-> <<>>]

\* an engine that is used again for the next run
reuse_engine(old) == old

\* BacktestEngine(config): the engine every run is given, whatever the
\* engine of the run before holds
new_engine(old) == EmptyEngine

\* run_backtest on engine e from the weeks on: the engine's state at return
\* and the equity curve
run_backtest(d, c, e, start, end) ==
    LET portfolio_value ==
            IF Len(Universe) <= 10 THEN capital_per_trade * Len(Universe)
            ELSE capital_per_trade * 5
    IN  process_weeks(d, c,
            [trades |-> e.trades,
             weekly_selections |-> e.weekly_selections,
             equity_values |-> << [date |-> start, equity |-> portfolio_value] >>,
             portfolio_value |-> portfolio_value],
            get_trading_weeks(start, end))

\* calculate_results: the parts of BacktestResults that list what happened
calculate_results(st) ==
    [trades_df |-> st.trades,
     equity_curve |-> st.equity_values,
     weekly_selections |-> st.weekly_selections]

NoMomentum == [called |-> FALSE, prices |-> <<>>, value |-> 0]

\* no replay is part of the run
ReplayIdle ==
    /\ data = [s \in Symbols |-> <<>>]
    /\ config = [expected_return_pct |-> 0, stop_loss_pct |-> 0]
    /\ engine = EmptyEngine
    /\ results = <<>>
    /\ momentum = NoMomentum

\* ---------------------------------------------------------------------------
\* position_safety.py: the risk scores and the concentration check as
\* functions of their arguments. Values are dollars, volatilities and
\* concentrations are percent
\* ---------------------------------------------------------------------------

\* size risk of a position
position_size_risk(market_value) ==
    IF market_value > 30000 THEN 20
    ELSE IF market_value > 20000 THEN 10 ELSE 0

\* volatility > 0.40, volatility > 0.25
volatility_risk(volatility) ==
    IF volatility > 40 THEN 30
    ELSE IF volatility > 25 THEN 15 ELSE 0

\* a loss that lowers the score
loss_risk_negative(market_value, unrealized_pnl) ==
    IF market_value > 0 /\ unrealized_pnl * 100 < -(10 * market_value) THEN -25
    ELSE IF market_value > 0 /\ unrealized_pnl * 100 < -(5 * market_value) THEN -10
    ELSE 0

\* loss_pct = unrealized_pnl / market_value if market_value > 0 else 0;
\* loss_pct < -0.10, loss_pct < -0.05
loss_risk(market_value, unrealized_pnl) ==
    IF market_value > 0 /\ unrealized_pnl * 100 < -(10 * market_value) THEN 25
    ELSE IF market_value > 0 /\ unrealized_pnl * 100 < -(5 * market_value) THEN 10
    ELSE 0

sector_risk(sector) == IF sector \in {"Technology", "ETF-Leveraged"} THEN 10 ELSE 0

_calculate_position_risk_score(market_value, volatility, unrealized_pnl, sector) ==
    Min(position_size_risk(market_value) + volatility_risk(volatility)
        + loss_risk(market_value, unrealized_pnl) + sector_risk(sector), 100)

\* max(sector_concentrations.values()) if sector_concentrations else 0
RECURSIVE MaxOf(_)
MaxOf(q) == IF q = <<>> THEN 0
            ELSE IF Len(q) = 1 THEN q[1] ELSE Max(Head(q), MaxOf(Tail(q)))

\* var_pct = var_95 / total_value if total_value > 0 else 0; var_pct > pct%
VarAbove(var_95, total_value, pct) ==
    total_value > 0 /\ var_95 * 100 > pct * total_value

_calculate_portfolio_risk_score(total_value, max_concentration, sector_concentrations, var_95) ==
    LET max_sector_concentration == MaxOf(sector_concentrations)
        concentration == IF max_concentration > 20 THEN 25
                         ELSE IF max_concentration > 15 THEN 15 ELSE 0
        sector == IF max_sector_concentration > 40 THEN 20
                  ELSE IF max_sector_concentration > 30 THEN 10 ELSE 0
        var == IF VarAbove(var_95, total_value, 15) THEN 25
               ELSE IF VarAbove(var_95, total_value, 10) THEN 15 ELSE 0
        size == IF total_value > 400000 THEN 15
                ELSE IF total_value > 200000 THEN 10 ELSE 0
    IN  Min(concentration + sector + var + size, 100)

NoRisk == [kind |-> "none"]

\* no risk metric is computed
RiskIdle ==
    /\ risk_in = NoRisk
    /\ risk_out = NoRisk

AuxIdle == ReplayIdle /\ RiskIdle

\* no backtest is part of the run
CalIdle ==
    /\ start_date = 0
    /\ end_date = 0
    /\ weeks = <<>>
    /\ calPc = "config"
    /\ holidays = {}
    /\ live_week = NoLiveWeek

\* run_week_cycle at the call of monday_entries, once the entry clock is reached
InitLive ==
    /\ cfg \in Configs
    /\ \E ab \in AtrPairs : \E px \in LastCloses :
         cands = << [symbol |-> "AAA", last_close |-> px, atr |-> ab[1]],
                    [symbol |-> "BBB", last_close |-> px, atr |-> ab[2]] >>
    /\ LiveFresh
    /\ SafetyIdle
    /\ ConnIdle
    /\ CalIdle
    /\ AuxIdle


brokerVars == <<entryOrder, fillPx, stopOrder, stopSent, sellOrder, hedgeOrder>>

monVars == <<monPc, monSnap, monIdx>>

otherVars == <<safetyVars, conn, cal, aux>>

\* an exception leaves run_week_cycle: its finally block disconnects and
\* asyncio.run cancels the monitor task
Raise(kind, s) ==
    /\ mainPc' = "aborted"
    /\ failure' = <<kind, s>>

\* a hedge that is opened after every entry loop
AfterEntries_AlwaysHedge(alloc) == "hedge_md"

\* the position of monday_entries after its for loop over cands
AfterEntries(alloc) ==
    IF hedgeFlag' /\ alloc > 0 THEN "hedge_md" ELSE "friday_wait"

\* monday_entries: regime check, stand-down and selection
RegimeCheck ==
    /\ mainPc = "regime"
    /\ \E a \in RegimeArgs :
         LET ok == spy_regime_ok(a.ema_len, a.max_vix, a.spy, a.vix) IN
         /\ regime_ok' = IF ok THEN "True" ELSE "False"
         /\ IF ~ok /\ ~cfg.enable_hedge
            THEN /\ hedgeFlag' = FALSE
                 /\ mainPc' = "friday_wait"
            ELSE /\ hedgeFlag' = ~ok
                 /\ mainPc' = IF cands = <<>> THEN AfterEntries(0) ELSE "entry_place"
    /\ loopIdx' = 1
    /\ UNCHANGED <<md_last, sellQty, cfg, cands, totalAlloc, positions, pos, hedge, exitSnap,
                   cancelCalled, protectCalls, trailCalls, sawER, modFails, failure,
                   stopEvent, brokerVars, monVars, otherVars>>

\* place_entry_and_stop up to `await trade.filledEvent`
PlaceEntry ==
    /\ mainPc = "entry_place"
    /\ LET s == cands[loopIdx].symbol IN
       \E raises \in BOOLEAN :
         IF raises
         THEN /\ Raise("entry", s)
              /\ UNCHANGED entryOrder
         ELSE /\ entryOrder' = [entryOrder EXCEPT ![s] = "submitted"]
              /\ mainPc' = "entry_await"
              /\ UNCHANGED failure
    /\ UNCHANGED <<regime_ok, md_last, sellQty, cfg, cands, loopIdx, hedgeFlag, totalAlloc, positions, pos, hedge,
                   exitSnap, fillPx, stopOrder, stopSent, sellOrder, hedgeOrder,
                   cancelCalled, protectCalls, trailCalls, sawER, modFails, stopEvent,
                   monVars, otherVars>>

\* the broker fills an entry order
BrokerFillEntry ==
    \E s \in Syms : \E f \in FillPrices :
      /\ entryOrder[s] = "submitted"
      /\ entryOrder' = [entryOrder EXCEPT ![s] = "filled"]
      /\ fillPx' = [fillPx EXCEPT ![s] = f]
      /\ UNCHANGED <<regime_ok, md_last, sellQty, cfg, cands, mainPc, loopIdx, hedgeFlag, totalAlloc, positions,
                     pos, hedge, exitSnap, stopOrder, stopSent, sellOrder, hedgeOrder,
                     cancelCalled, protectCalls, trailCalls, sawER, modFails, failure,
                     stopEvent, monVars, otherVars>>

\* the broker rejects an entry order: its filledEvent never fires
BrokerRejectEntry ==
    \E s \in Syms :
      /\ entryOrder[s] = "submitted"
      /\ entryOrder' = [entryOrder EXCEPT ![s] = "rejected"]
      /\ UNCHANGED <<regime_ok, md_last, sellQty, cfg, cands, mainPc, loopIdx, hedgeFlag, totalAlloc, positions,
                     pos, hedge, exitSnap, fillPx, stopOrder, stopSent, sellOrder,
                     hedgeOrder, cancelCalled, protectCalls, trailCalls, sawER, modFails,
                     failure, stopEvent, monVars, otherVars>>

\* an entry that counts as filled from the moment it is submitted
filledEvent_OnSubmit(status) == status \in {"submitted", "filled"}

\* place_entry_and_stop: `await trade.filledEvent` returns
filledEvent(status) == status = "filled"

\* place_entry_and_stop after the fill: the linked stop order
PlaceInitialStop ==
    /\ mainPc = "entry_await"
    /\ LET c == cands[loopIdx]
           s == c.symbol
       IN  /\ filledEvent(entryOrder[s])
           /\ \E raises \in BOOLEAN :
                IF raises
                THEN /\ Raise("stop", s)
                     /\ UNCHANGED <<stopOrder, stopSent>>
                ELSE /\ stopOrder' = [stopOrder EXCEPT ![s] = "live"]
                     /\ stopSent' = [stopSent EXCEPT ![s] =
                          <<Round2(InitialStop(c.last_close, c.atr, cfg.stop_mode))>>]
                     /\ mainPc' = "entry_register"
                     /\ UNCHANGED failure
    /\ UNCHANGED <<regime_ok, md_last, sellQty, cfg, cands, loopIdx, hedgeFlag, totalAlloc, positions, pos, hedge,
                   exitSnap, entryOrder, fillPx, sellOrder, hedgeOrder, cancelCalled,
                   protectCalls, trailCalls, sawER, modFails, stopEvent, monVars, otherVars>>

\* monday_entries: state.positions[sym] = {...}; total_alloc += cap
RegisterPosition ==
    /\ mainPc = "entry_register"
    /\ LET c == cands[loopIdx]
           s == c.symbol
           entry == EntryPrice(fillPx[s], c.last_close)
           erBp == ExpectedReturnFor(c.last_close, c.atr, cfg.expected_return_mode)
       IN  /\ pos' = [pos EXCEPT ![s] =
                 [registered |-> TRUE, entry_price |-> entry,
                  qty |-> EntryQty(c.last_close), atr |-> c.atr,
                  er_level |-> ErLevel(entry, erBp), target_hit |-> FALSE,
                  trail_level |-> InitialStop(c.last_close, c.atr, cfg.stop_mode)]]
           /\ positions' = IF \E i \in DOMAIN positions : positions[i] = s
                           THEN positions ELSE Append(positions, s)
    /\ totalAlloc' = totalAlloc + 1
    /\ loopIdx' = loopIdx + 1
    /\ UNCHANGED hedgeFlag
    /\ mainPc' = IF loopIdx < Len(cands) THEN "entry_place"
                 ELSE AfterEntries(totalAlloc + 1)
    /\ UNCHANGED <<regime_ok, md_last, sellQty, cfg, cands, hedge, exitSnap, cancelCalled, protectCalls,
                   trailCalls, sawER, modFails, failure, stopEvent, brokerVars, monVars,
                   otherVars>>

\* open_spy_hedge: qty = max(1, int(hedge_ratio * alloc_usd / px))
HedgeQty(alloc, px) == Max(1, (HedgeRatioX10 * alloc * CapitalPerTrade) \div (10 * px))

\* open_spy_hedge up to `await trade.filledEvent`
OpenHedge ==
    /\ mainPc = "hedge_md"
    /\ \E px \in SpyPrices : \E raises \in BOOLEAN :
         IF px <= 0
         THEN /\ mainPc' = "friday_wait"
              /\ UNCHANGED <<hedgeOrder, failure>>
         ELSE IF raises
         THEN /\ Raise("hedge", "SPY")
              /\ UNCHANGED hedgeOrder
         ELSE /\ hedgeOrder' = [status |-> "open_submitted",
                                qty |-> HedgeQty(totalAlloc, px)]
              /\ mainPc' = "hedge_await"
              /\ UNCHANGED failure
    /\ UNCHANGED <<regime_ok, md_last, sellQty, cfg, cands, loopIdx, hedgeFlag, totalAlloc, positions, pos, hedge,
                   exitSnap, entryOrder, fillPx, stopOrder, stopSent, sellOrder,
                   cancelCalled, protectCalls, trailCalls, sawER, modFails, stopEvent,
                   monVars, otherVars>>

\* the broker fills or rejects the hedge order in flight
BrokerHedge ==
    /\ hedgeOrder.status \in {"open_submitted", "close_submitted"}
    /\ \E fills \in BOOLEAN :
         hedgeOrder' = [hedgeOrder EXCEPT !.status =
            IF hedgeOrder.status = "open_submitted"
            THEN (IF fills THEN "open_filled" ELSE "open_rejected")
            ELSE (IF fills THEN "close_filled" ELSE "close_rejected")]
    /\ UNCHANGED <<regime_ok, md_last, sellQty, cfg, cands, mainPc, loopIdx, hedgeFlag, totalAlloc, positions, pos,
                   hedge, exitSnap, entryOrder, fillPx, stopOrder, stopSent,
                   sellOrder, cancelCalled, protectCalls, trailCalls, sawER, modFails, failure,
                   stopEvent, monVars, otherVars>>

\* open_spy_hedge after the fill, and monday_entries: state.hedge = h
HedgeOpened ==
    /\ mainPc = "hedge_await"
    /\ hedgeOrder.status = "open_filled"
    /\ hedge' = hedgeOrder.qty
    /\ mainPc' = "friday_wait"
    /\ UNCHANGED <<regime_ok, md_last, sellQty, cfg, cands, loopIdx, hedgeFlag, totalAlloc, positions, pos,
                   exitSnap, cancelCalled, protectCalls, trailCalls, sawER, modFails, failure,
                   stopEvent, brokerVars, monVars, otherVars>>


\* half of the position
SellQty_Half(p) == p.qty \div 2

\* friday_exit_all: MarketOrder("SELL", int(p["qty"]))
SellQty(p) == p.qty

\* friday_exit_all: the market SELL of one position, up to `await trade.filledEvent`
SellChunk(s) ==
    \E raises \in BOOLEAN :
      IF raises
      THEN /\ Raise("exit", s)
           /\ UNCHANGED <<sellOrder, sellQty>>
      ELSE /\ sellOrder' = [sellOrder EXCEPT ![s] = "submitted"]
           /\ sellQty' = [sellQty EXCEPT ![s] = SellQty(pos[s])]
           /\ mainPc' = "exit_await"
           /\ UNCHANGED failure

\* friday_exit_all after its for loop: clear the positions, close the hedge
TailChunk ==
    /\ positions' = <<>>
    /\ IF hedge # 0
       THEN \E raises \in BOOLEAN :
              IF raises
              THEN /\ Raise("hedge_close", "SPY")
                   /\ UNCHANGED <<hedgeOrder, stopEvent>>
              ELSE /\ hedgeOrder' = [status |-> "close_submitted", qty |-> hedge]
                   /\ mainPc' = "hedge_close_await"
                   /\ UNCHANGED <<failure, stopEvent>>
       ELSE /\ mainPc' = "stopping"
            /\ stopEvent' = TRUE
            /\ UNCHANGED <<hedgeOrder, failure>>

\* friday_exit_all: the head of the for loop at index i of the snapshot: cancel
\* the stop (a failing cancelOrder is swallowed and skips the sleep), or leave
\* the loop
FlattenHead(i, snap) ==
    IF i > Len(snap)
    THEN /\ TailChunk
         /\ UNCHANGED <<cancelCalled, stopOrder, sellOrder, sellQty>>
    ELSE LET s == snap[i] IN
         /\ cancelCalled' = [cancelCalled EXCEPT ![s] = TRUE]
         /\ \E cancelRaises \in BOOLEAN :
              IF cancelRaises
              THEN /\ UNCHANGED stopOrder
                   /\ SellChunk(s)
              ELSE /\ stopOrder' = [stopOrder EXCEPT ![s] =
                                      IF @ = "live" THEN "cancelled" ELSE @]
                   /\ mainPc' = "exit_cancel_sleep"
                   /\ UNCHANGED <<sellOrder, sellQty, failure>>
         /\ UNCHANGED <<positions, hedgeOrder, stopEvent>>

\* friday_exit_all: the 15:55 cutoff is reached
FridayCutoff ==
    /\ mainPc = "friday_wait"
    /\ exitSnap' = positions
    /\ loopIdx' = 1
    /\ FlattenHead(1, positions)
    /\ UNCHANGED <<regime_ok, md_last, cfg, cands, hedgeFlag, totalAlloc, pos, hedge, entryOrder, fillPx,
                   stopSent, protectCalls, trailCalls, sawER, modFails, monVars, otherVars>>

\* friday_exit_all: after `await asyncio.sleep(0.05)`, the market SELL
PlaceExitSell ==
    /\ mainPc = "exit_cancel_sleep"
    /\ SellChunk(exitSnap[loopIdx])
    /\ UNCHANGED <<regime_ok, md_last, cfg, cands, loopIdx, hedgeFlag, totalAlloc, positions, pos, hedge,
                   exitSnap, entryOrder, fillPx, stopOrder, stopSent, hedgeOrder,
                   cancelCalled, protectCalls, trailCalls, sawER, modFails, stopEvent,
                   monVars, otherVars>>

\* the broker fills or rejects a flattening SELL
BrokerExit ==
    \E s \in Syms : \E fills \in BOOLEAN :
      /\ sellOrder[s] = "submitted"
      /\ sellOrder' = [sellOrder EXCEPT ![s] = IF fills THEN "filled" ELSE "rejected"]
      /\ UNCHANGED <<regime_ok, md_last, sellQty, cfg, cands, mainPc, loopIdx, hedgeFlag, totalAlloc, positions,
                     pos, hedge, exitSnap, entryOrder, fillPx, stopOrder, stopSent,
                     hedgeOrder, cancelCalled, protectCalls, trailCalls, sawER, modFails,
                     failure, stopEvent, monVars, otherVars>>

\* friday_exit_all: after `await trade.filledEvent`, journal and sleep
ExitFilled ==
    /\ mainPc = "exit_await"
    /\ sellOrder[exitSnap[loopIdx]] = "filled"
    /\ mainPc' = "exit_sleep"
    /\ UNCHANGED <<regime_ok, md_last, sellQty, cfg, cands, loopIdx, hedgeFlag, totalAlloc, positions, pos, hedge,
                   exitSnap, cancelCalled, protectCalls, trailCalls, sawER, modFails, failure,
                   stopEvent, brokerVars, monVars, otherVars>>

\* friday_exit_all: after `await asyncio.sleep(0.1)`, the next position
ExitNext ==
    /\ mainPc = "exit_sleep"
    /\ loopIdx' = loopIdx + 1
    /\ FlattenHead(loopIdx + 1, exitSnap)
    /\ UNCHANGED <<regime_ok, md_last, cfg, cands, hedgeFlag, totalAlloc, pos, hedge, exitSnap,
                   entryOrder, fillPx, stopSent, protectCalls, trailCalls, sawER, modFails,
                   monVars, otherVars>>

\* close_spy_hedge after the fill; friday_exit_all returns and run_week_cycle
\* sets stop_event
HedgeClosed ==
    /\ mainPc = "hedge_close_await"
    /\ hedgeOrder.status = "close_filled"
    /\ hedge' = 0
    /\ stopEvent' = TRUE
    /\ mainPc' = "stopping"
    /\ UNCHANGED <<regime_ok, md_last, sellQty, cfg, cands, loopIdx, hedgeFlag, totalAlloc, positions, pos,
                   exitSnap, cancelCalled, protectCalls, trailCalls, sawER, modFails, failure,
                   brokerVars, monVars, otherVars>>

\* run_week_cycle: `await monitor_task` returns
MainDone ==
    /\ mainPc = "stopping"
    /\ monPc = "stopped"
    /\ mainPc' = "done"
    /\ UNCHANGED <<regime_ok, md_last, sellQty, cfg, cands, loopIdx, hedgeFlag, totalAlloc, positions, pos, hedge,
                   exitSnap, cancelCalled, protectCalls, trailCalls, sawER, modFails, failure,
                   stopEvent, brokerVars, monVars, otherVars>>

\* the positions of run_week_cycle at which the monitor task exists
MonitorPhase == {"friday_wait", "exit_cancel_sleep", "exit_await", "exit_sleep",
                 "hedge_close_await", "stopping"}

\* monitor_loop: the while test and the snapshot of state.positions
MonitorTickStart ==
    /\ mainPc \in MonitorPhase
    /\ monPc = "loop_top"
    /\ IF stopEvent
       THEN /\ monPc' = "stopped"
            /\ UNCHANGED <<monSnap, monIdx>>
       ELSE /\ monSnap' = positions
            /\ monIdx' = 1
            /\ monPc' = IF positions = <<>> THEN "loop_top" ELSE "md"
    /\ UNCHANGED <<regime_ok, md_last, sellQty, cfg, cands, mainPc, loopIdx, hedgeFlag, totalAlloc, positions, pos,
                   hedge, exitSnap, cancelCalled, protectCalls, trailCalls, sawER, modFails,
                   failure, stopEvent, brokerVars, otherVars>>

\* a for loop that is left after one position
AfterVisit_Break(i, snap) == "loop_top"

\* monitor_loop: the for loop goes on to the next position of the snapshot,
\* or to `await asyncio.sleep(2.0)` and the while test
AfterVisit(i, snap) == IF i < Len(snap) THEN "md" ELSE "loop_top"

\* monitor_loop: one position of the snapshot, from the quote to the stop updates.
\* modify_stop swallows a failing ib.placeOrder (ok1, ok2).
MonitorSymbol ==
    /\ mainPc \in MonitorPhase
    /\ monPc = "md"
    /\ LET s == monSnap[monIdx]
           p == pos[s]
       IN  \E last \in LastPrices :
             LET live == last > 0
                 hit  == live /\ ERProtectDue(p, last)
                 p1   == IF hit THEN [p EXCEPT !.target_hit = TRUE] ELSE p
                 cand == TrailCandidate(p1, cfg.trailing_mode)
                 rat  == live /\ RatchetDue(p1, last, cand)
                 p2   == IF rat THEN [p1 EXCEPT !.trail_level = cand] ELSE p1
             IN  \E ok1 \in (IF hit THEN BOOLEAN ELSE {TRUE}) :
                 \E ok2 \in (IF rat THEN BOOLEAN ELSE {TRUE}) :
                   LET sent1 == IF hit /\ ok1
                                THEN Append(stopSent[s], Round2(p.er_level))
                                ELSE stopSent[s]
                       sent2 == IF rat /\ ok2 THEN Append(sent1, Round2(cand))
                                ELSE sent1
                       fails == (IF ok1 THEN 0 ELSE 1) + (IF ok2 THEN 0 ELSE 1)
                   IN  /\ modFails + fails <= MaxModifyFailures
                       /\ Len(sent2) <= MaxStopMsgs
                       /\ protectCalls[s] < MaxStopMsgs
                       /\ trailCalls[s] < MaxStopMsgs
                       /\ modFails' = modFails + fails
                       /\ pos' = [pos EXCEPT ![s] = p2]
                       /\ stopSent' = [stopSent EXCEPT ![s] = sent2]
                       /\ stopOrder' = [stopOrder EXCEPT ![s] =
                                          IF sent2 # stopSent[s] THEN "live" ELSE @]
                       /\ protectCalls' = [protectCalls EXCEPT ![s] =
                                             IF hit THEN @ + 1 ELSE @]
                       /\ trailCalls' = [trailCalls EXCEPT ![s] =
                                           IF rat THEN @ + 1 ELSE @]
                       /\ sawER' = [sawER EXCEPT ![s] =
                                      @ \/ (live /\ last >= p.er_level)]
                       /\ md_last' = last
    /\ monIdx' = monIdx + 1
    /\ monPc' = AfterVisit(monIdx, monSnap)
    /\ UNCHANGED <<regime_ok, sellQty, cfg, cands, mainPc, loopIdx, hedgeFlag, totalAlloc, positions,
                   hedge, exitSnap, entryOrder, fillPx, sellOrder, hedgeOrder,
                   cancelCalled, failure, stopEvent, monSnap, otherVars>>

NextLive ==
    \/ RegimeCheck
    \/ PlaceEntry
    \/ BrokerFillEntry
    \/ BrokerRejectEntry
    \/ PlaceInitialStop
    \/ RegisterPosition
    \/ OpenHedge
    \/ BrokerHedge
    \/ HedgeOpened
    \/ FridayCutoff
    \/ PlaceExitSell
    \/ BrokerExit
    \/ ExitFilled
    \/ ExitNext
    \/ HedgeClosed
    \/ MainDone
    \/ MonitorTickStart
    \/ MonitorSymbol

SpecLive == InitLive /\ [][NextLive]_vars


\* the main task awaits the filledEvent of an order the broker rejected
MainBlocked ==
    \/ mainPc = "entry_await" /\ entryOrder[cands[loopIdx].symbol] = "rejected"
    \/ mainPc = "exit_await" /\ sellOrder[exitSnap[loopIdx]] = "rejected"
    \/ mainPc = "hedge_await" /\ hedgeOrder.status = "open_rejected"
    \/ mainPc = "hedge_close_await" /\ hedgeOrder.status = "close_rejected"

NonDecreasing(q) == \A i \in 1..(Len(q) - 1) : q[i] <= q[i + 1]

\* C1: the stop prices the broker receives for a position (the initial stop, then
\* every protect_ER and trail_ratchet modification) never decrease.
C1_StopPricesNonDecreasing == \A s \in Syms : NonDecreasing(stopSent[s])

\* C2: target_hit is false at registration, goes true exactly in the first visit
\* that sees last >= er_level, never reverts, and modify_stop(protect_ER) is
\* called exactly once, in that visit.
C2_TargetHitLatch ==
    [][\A s \in Syms :
         /\ pos[s].target_hit => pos'[s].target_hit
         /\ (~pos[s].registered /\ pos'[s].registered) => ~pos'[s].target_hit
         /\ pos'[s].target_hit <=> sawER'[s]
         /\ protectCalls'[s] = (IF pos'[s].target_hit THEN 1 ELSE 0)
         /\ protectCalls'[s] # protectCalls[s] => ~pos[s].target_hit]_vars

\* C2 witness: the latch is set, its raise was issued once, and the monitor is
\* about to visit the same position again
C2_Witness ==
    \E s \in Syms :
      /\ pos[s].target_hit
      /\ protectCalls[s] = 1
      /\ monPc = "md"
      /\ monSnap[monIdx] = s

\* C6: when friday_exit_all flattens, the stop of every open position has been
\* cancelled before the first market SELL is issued, so that no position ever
\* has a live stop and a working market SELL for the same shares.
C6_StopsCancelledBeforeFlattening ==
    /\ (\E s \in Syms : sellOrder[s] # "none")
          => \A i \in DOMAIN exitSnap : cancelCalled[exitSnap[i]]
    /\ \A s \in Syms : sellOrder[s] = "submitted" => stopOrder[s] # "live"

\* C7: an entry order that raises or is rejected leaves its symbol unregistered
\* and neither aborts nor stalls monday_entries.
C7_EntryFailureSkipsSymbol ==
    \A s \in Syms :
      (entryOrder[s] = "rejected" \/ failure = <<"entry", s>>)
         => /\ ~pos[s].registered
            /\ mainPc # "aborted"
            /\ ~MainBlocked

\* C8: an exit order that raises or never fills neither aborts nor blocks
\* friday_exit_all, and its position is not cleared as if it were closed.
C8_ExitFailureDoesNotBlock ==
    \A s \in Syms :
      (sellOrder[s] = "rejected" \/ failure = <<"exit", s>>)
         => /\ mainPc # "aborted"
            /\ ~MainBlocked

\* the main task is in the for loop of monday_entries
EntryPhase == {"entry_place", "entry_await", "entry_register"}

AllEntered == \A i \in DOMAIN cands : pos[cands[i].symbol].registered

C23_RegisteredOnlyAfterFill ==
    \A s \in Syms :
      /\ stopOrder[s] # "none" => entryOrder[s] = "filled"
      /\ stopSent[s] # <<>> => entryOrder[s] = "filled"
      /\ pos[s].registered =>
            /\ entryOrder[s] = "filled"
            /\ stopOrder[s] # "none"
            /\ stopSent[s] # <<>>
      /\ (\E i \in DOMAIN positions : positions[i] = s) =>
            pos[s].registered /\ entryOrder[s] = "filled"

\* the first entry filled and was registered behind its stop; the second
\* was rejected and has no stop and no position
C23_Witness ==
    /\ pos["AAA"].registered
    /\ positions = <<"AAA">>
    /\ stopOrder["AAA"] = "live"
    /\ entryOrder["BBB"] = "rejected"
    /\ stopOrder["BBB"] = "none"
    /\ ~pos["BBB"].registered

\* friday_exit_all has returned
ExitCompleted == mainPc \in {"stopping", "done"}

\* C24: when friday_exit_all completes, the live state holds no position and
\* no hedge: every position that was open received a market SELL for its
\* full quantity, state.positions is empty, and a hedge that existed was
\* covered by a BUY for its full quantity and state.hedge is None.
C24_ExitLeavesNothingOpen ==
    ExitCompleted =>
      /\ positions = <<>>
      /\ hedge = 0
      /\ \A s \in Syms :
           pos[s].registered =>
              /\ sellOrder[s] = "filled"
              /\ sellQty[s] = pos[s].qty
              /\ sellQty[s] = EntryQty(CandOf(s).last_close)
      /\ hedgeOrder.status # "none" =>
              /\ hedgeOrder.status = "close_filled"
              /\ \E px \in SpyPrices :
                   px > 0 /\ hedgeOrder.qty = HedgeQty(totalAlloc, px)

\* a hedged week ran to its end: both positions were sold and the hedge
\* was covered
C24_Witness ==
    /\ mainPc = "done"
    /\ \A s \in Syms : pos[s].registered /\ sellOrder[s] = "filled"
    /\ hedgeOrder.status = "close_filled"
    /\ hedgeOrder.qty > 0

\* the step is a visit of monitor_loop to the position at monIdx
MonitorVisit == monPc = "md" /\ monIdx' = monIdx + 1

\* C25: in a monitor tick where the last price of a symbol is unavailable
\* (zero or negative after the fallback) the symbol is skipped: its
\* target_hit and trail_level are unchanged and no stop modification is
\* issued for it, the other positions of the tick are still processed, and
\* the monitor loop continues.
C25_UnavailablePriceSkipsSymbol ==
    [][(MonitorVisit /\ md_last' <= 0) =>
          /\ pos' = pos
          /\ stopSent' = stopSent
          /\ stopOrder' = stopOrder
          /\ protectCalls' = protectCalls
          /\ trailCalls' = trailCalls
          /\ modFails' = modFails
          /\ monSnap' = monSnap
          /\ monPc' = IF monIdx < Len(monSnap) THEN "md" ELSE "loop_top"]_vars

\* the first of two positions had no price and was skipped, the tick is at
\* the second one
C25_Witness ==
    /\ md_last = 0
    /\ monPc = "md"
    /\ monIdx = 2
    /\ Len(monSnap) = 2
    /\ pos[monSnap[1]].registered
    /\ ~pos[monSnap[1]].target_hit

\* C26: monitor_loop changes a position's trail_level only in a tick where
\* last >= candidate and candidate > the current trail_level, and sets it
\* to candidate; trail_level never decreases, and the trail_ratchet stop
\* modification is issued at most once per position.
C26_TrailRatchetOnce ==
    [][\A s \in Syms :
         LET candidate == TrailCandidate(pos[s], cfg.trailing_mode) IN
         /\ (pos[s].registered /\ pos'[s].trail_level # pos[s].trail_level) =>
               /\ MonitorVisit
               /\ monSnap[monIdx] = s
               /\ candidate # 0
               /\ md_last' >= candidate
               /\ candidate > pos[s].trail_level
               /\ pos'[s].trail_level = candidate
         /\ pos[s].registered => pos'[s].trail_level >= pos[s].trail_level
         /\ trailCalls'[s] # trailCalls[s] =>
               pos'[s].trail_level # pos[s].trail_level
         /\ trailCalls'[s] <= 1]_vars

\* a position was ratcheted to its candidate and the monitor visits it again
C26_Witness ==
    \E s \in Syms :
      /\ trailCalls[s] = 1
      /\ pos[s].trail_level = TrailCandidate(pos[s], cfg.trailing_mode)
      /\ monPc = "md"
      /\ monIdx = 1
      /\ monSnap[1] = s
      /\ md_last >= pos[s].trail_level

\* C27: while monitor_loop and friday_exit_all run concurrently, once
\* friday_exit_all has cancelled a position's stop order, no stop order for
\* that symbol is submitted or re-submitted, and monitor_loop issues no
\* modify_stop for a position whose exit is in progress or complete.
C27_NoStopAfterCancel ==
    [][\A s \in Syms :
         cancelCalled[s] =>
            /\ stopSent'[s] = stopSent[s]
            /\ protectCalls'[s] = protectCalls[s]
            /\ trailCalls'[s] = trailCalls[s]
            /\ stopOrder[s] = "cancelled" => stopOrder'[s] = "cancelled"]_vars

\* ---------------------------------------------------------------------------
\* SpecSafety: position_safety.py driven by run_safety_monitor and by the
\* trader's _pre_trading_safety_check, on an account holding two positions.
\* The connection is up and trading is not paused.
\* ---------------------------------------------------------------------------

MaxInFlight == 2

MaxJournal == 1

InFlight(ord, s) == ord[s].all + ord[s].losing

\* ib.placeOrder(contract, MarketOrder('SELL', quantity))
PlaceSell(ord, s, kind) == [ord EXCEPT ![s][kind] = @ + 1]

RECURSIVE PlaceAll(_, _, _)
PlaceAll(ord, q, kind) ==
    IF q = <<>> THEN ord
    ELSE PlaceAll(PlaceSell(ord, Head(q), kind), Tail(q), kind)

\* list.sort(key=...): stable, ascending
StableSort(q, Key(_)) ==
    LET n == Len(q)
        rank(i) == 1 + Cardinality({j \in 1..n :
                         \/ Key(q[j]) < Key(q[i])
                         \/ (Key(q[j]) = Key(q[i]) /\ j < i)})
    IN  [k \in 1..n |-> q[CHOOSE i \in 1..n : rank(i) = k]]

\* the losing positions in portfolio order, not sorted
losing_positions_unsorted(p, mk) ==
    SelectSeq(Portfolio, LAMBDA s :
        p[s] > 0 /\ UnrealizedPNL(p, mk, s) < -losing_threshold)

\* _close_losing_positions: the positions it sells, worst loss first
losing_positions(p, mk) ==
    StableSort(SelectSeq(Portfolio, LAMBDA s :
                   p[s] > 0 /\ UnrealizedPNL(p, mk, s) < -losing_threshold),
               LAMBDA s : UnrealizedPNL(p, mk, s))

\* _emergency_close_all_positions: positions_to_close
positions_to_close(p) == SelectSeq(Portfolio, LAMBDA s : p[s] > 0)

\* journal.log_event("emergency_action", ...): writes the event or raises
log_event(ok) == IF ok THEN Min(journal + 1, MaxJournal) ELSE journal

\* the first effect of an escalation: stays as it is once set
FirstEffect(first, effect) == IF first = "none" THEN effect ELSE first

InitSafety ==
    /\ LiveIdle
    /\ ConnIdle
    /\ CalIdle
    /\ AuxIdle
    /\ mkt = "flat"
    /\ pf = Holding
    /\ orders = NoOrders
    /\ mgr = [r \in Runners |-> NewManager]
    /\ run = [r \in Runners |-> RunnerIdle]
    /\ journal = 0

\* One safety check of runner r and what follows it without an await:
\* perform_safety_check, then execute_emergency_actions over the CRITICAL
\* violations in the order _check_safety_violations lists them
\* (daily_loss_exceeded before emergency_stop_triggered) up to the first
\* asyncio.sleep(1) of _emergency_close_all_positions, and for the trader
\* with nothing to close the journal.log_event that follows.
SafetyCheck(r) ==
    /\ run[r].pc = "idle"
    /\ LET violations == _check_safety_violations(pf, mkt, mgr[r])
           critical == CriticalOf(violations)
           losers == IF HasType(critical, "daily_loss_exceeded")
                     THEN losing_positions(pf, mkt) ELSE <<>>
           ord1 == PlaceAll(orders, losers, "losing")
           snap == IF HasType(critical, "emergency_stop_triggered")
                   THEN positions_to_close(pf) ELSE <<>>
           ord2 == IF snap # <<>> THEN PlaceSell(ord1, snap[1], "all") ELSE ord1
           first1 == IF ord2 # orders THEN "sell" ELSE "none"
           sold == [i \in 1..Len(losers) |->
                       Sold(losers[i], "close_losing_positions")]
                   \o (IF snap # <<>>
                       THEN << Sold(snap[1], "emergency_close_all") >>
                       ELSE <<>>)
           checked == [run[r] EXCEPT !.report = Report(pf, mkt, mgr[r]),
                                     !.sold = sold]
       IN  /\ \A s \in SafetySyms : InFlight(ord2, s) <= MaxInFlight
           /\ mgr' = [mgr EXCEPT ![r] = perform_safety_check(pf, mkt, @)]
           /\ orders' = ord2
           /\ IF critical = <<>>
              THEN /\ run' = [run EXCEPT ![r] = checked]
                   /\ UNCHANGED journal
              ELSE IF snap # <<>>
              THEN /\ run' = [run EXCEPT ![r] =
                                 [checked EXCEPT !.pc = "closing",
                                                 !.snap = snap, !.idx = 1,
                                                 !.first = first1]]
                   /\ UNCHANGED journal
              ELSE IF r = "trader"
              THEN \E ok \in BOOLEAN :
                     /\ journal' = log_event(ok)
                     /\ run' = [run EXCEPT ![r] =
                                  [checked EXCEPT !.first =
                                      IF ok THEN FirstEffect(first1, "journal")
                                            ELSE first1]]
              ELSE /\ run' = [run EXCEPT ![r] = [checked EXCEPT !.first = first1]]
                   /\ UNCHANGED journal
    /\ UNCHANGED <<mkt, pf>>

\* run_safety_monitor: one pass of its loop
run_safety_monitor ==
    /\ SafetyCheck("task")
    /\ UNCHANGED <<liveVars, conn, cal, aux>>

\* _main_trading_loop: one pass, up to the return of _pre_trading_safety_check
\* or its first await
_pre_trading_safety_check ==
    /\ SafetyCheck("trader")
    /\ UNCHANGED <<liveVars, conn, cal, aux>>

\* _emergency_close_all_positions after an asyncio.sleep(1): the next SELL of
\* the snapshot, or the end of execute_emergency_actions and, for the trader,
\* the journal.log_event that follows it
_emergency_close_all_positions(r) ==
    /\ run[r].pc = "closing"
    /\ IF run[r].idx < Len(run[r].snap)
       THEN LET s == run[r].snap[run[r].idx + 1]
            IN  /\ InFlight(orders, s) < MaxInFlight
                /\ orders' = PlaceSell(orders, s, "all")
                /\ run' = [run EXCEPT ![r].idx = @ + 1,
                                      ![r].sold =
                                          Append(@, Sold(s, "emergency_close_all"))]
                /\ UNCHANGED journal
       ELSE /\ IF r = "trader"
               THEN \E ok \in BOOLEAN :
                      /\ journal' = log_event(ok)
                      /\ run' = [run EXCEPT ![r] =
                                   [@ EXCEPT !.pc = "idle", !.snap = <<>>,
                                             !.idx = 0,
                                             !.first =
                                                 IF ok THEN FirstEffect(@, "journal")
                                                       ELSE @]]
               ELSE /\ run' = [run EXCEPT ![r].pc = "idle", ![r].snap = <<>>,
                                          ![r].idx = 0]
                    /\ UNCHANGED journal
            /\ UNCHANGED orders
    /\ UNCHANGED <<mkt, pf, mgr>>
    /\ UNCHANGED <<liveVars, conn, cal, aux>>

\* environment: prices move
MarketMove ==
    /\ \E m \in Markets \ {mkt} : mkt' = m
    /\ UNCHANGED <<pf, orders, mgr, run, journal>>
    /\ UNCHANGED <<liveVars, conn, cal, aux>>

\* environment: the broker fills a SELL and the portfolio reflects it
BrokerFillsSell ==
    /\ \E s \in SafetySyms : \E kind \in {"all", "losing"} :
         /\ orders[s][kind] > 0
         /\ orders' = [orders EXCEPT ![s][kind] = @ - 1]
         /\ pf' = [pf EXCEPT ![s] = @ - Holding[s]]
    /\ UNCHANGED <<mkt, mgr, run, journal>>
    /\ UNCHANGED <<liveVars, conn, cal, aux>>

NextSafety ==
    \/ run_safety_monitor
    \/ _pre_trading_safety_check
    \/ \E r \in Runners : _emergency_close_all_positions(r)
    \/ MarketMove
    \/ BrokerFillsSell

SpecSafety == InitSafety /\ [][NextSafety]_vars

\* C3: emergency liquidation is idempotent. While a full liquidation is in
\* progress (its SELL orders are not yet reflected in the portfolio) a
\* repeated or concurrent detection of the emergency condition issues no
\* second full liquidation: no position ever has two close-all SELLs in flight.
C3_EmergencyLiquidationIdempotent ==
    \A s \in SafetySyms : orders[s].all <= 1

\* C9: every CRITICAL violation that leads to a corrective action is recorded
\* in the journal before the first corrective order is issued: the first
\* effect of an escalation, in either runner, is never a SELL.
C9_JournalBeforeCorrectiveAction ==
    \A r \in Runners : run[r].first # "sell"

\* ---------------------------------------------------------------------------
\* SpecConn: the ConnectionMonitor of the live connection, the network as
\* environment, and run_enhanced_trading_system with its main loop. The
\* safety check's report is an input of the loop.
\* ---------------------------------------------------------------------------

InitConn ==
    /\ LiveIdle
    /\ SafetyIdle
    /\ CalIdle
    /\ AuxIdle
    /\ ConnFresh

\* run_enhanced_trading_system, inside the async with block: callbacks are
\* set on the monitor of a new RobustIBConnection, the safety task is
\* created and the main loop is entered
run_enhanced_trading_system ==
    /\ trPc = "start"
    /\ callbacks' = [callbacks EXCEPT !["robust_conn"] = TRUE]
    /\ trPc' = "sleep"
    /\ UNCHANGED <<ibConnected, connection_healthy, reconnect_attempts,
                   is_monitoring, cmPc, trading_paused, last_safety_check,
                   resume, entryInLoss, disconnected_calls,
                   total_disconnections>>
    /\ UNCHANGED <<liveVars, safetyVars, cal, aux>>

\* environment: the socket to TWS drops
NetworkDrop ==
    /\ ibConnected
    /\ ibConnected' = FALSE
    /\ UNCHANGED <<connection_healthy, reconnect_attempts, is_monitoring, cmPc,
                   callbacks, trading_paused, trPc, last_safety_check, resume,
                   entryInLoss, disconnected_calls, total_disconnections>>
    /\ UNCHANGED <<liveVars, safetyVars, cal, aux>>

\* the number of connection losses a run is followed through
MaxDisconnections == 4

\* a retry that is allowed once more than the configuration says
attempts_left_inclusive(n) == n <= max_reconnect_attempts

\* _handle_connection_loss: reconnect_attempts < max_reconnect_attempts
attempts_left(n) == n < max_reconnect_attempts

\* _handle_connection_loss up to its asyncio.sleep(reconnect_delay)
_handle_connection_loss ==
    /\ connection_healthy' = FALSE
    /\ IF connection_healthy
       THEN /\ total_disconnections < MaxDisconnections
            /\ total_disconnections' = total_disconnections + 1
            /\ resume' = "lost"
            /\ trading_paused' = IF callbacks["live"] THEN on_disconnected
                                                      ELSE trading_paused
            /\ disconnected_calls' = IF callbacks["live"]
                                     THEN disconnected_calls + 1
                                     ELSE disconnected_calls
       ELSE UNCHANGED <<resume, trading_paused, disconnected_calls,
                        total_disconnections>>
    /\ IF attempts_left(reconnect_attempts)
       THEN /\ reconnect_attempts' = reconnect_attempts + 1
            /\ ibConnected' = FALSE
            /\ cmPc' = "reconnect_delay"
            /\ UNCHANGED is_monitoring
       ELSE /\ is_monitoring' = FALSE
            /\ UNCHANGED <<reconnect_attempts, ibConnected, cmPc>>

\* start_monitoring: one pass of its loop, _heartbeat_check
_heartbeat_check ==
    /\ is_monitoring
    /\ cmPc = "sleep"
    /\ \E probe \in {"accounts", "no_accounts", "raises"} :
         IF ibConnected /\ probe = "accounts"
         THEN /\ connection_healthy' = TRUE
              /\ reconnect_attempts' =
                    IF connection_healthy THEN reconnect_attempts ELSE 0
              /\ disconnected_calls' = 0
              /\ UNCHANGED <<ibConnected, is_monitoring, cmPc, trading_paused,
                             resume, total_disconnections>>
         ELSE _handle_connection_loss
    /\ UNCHANGED <<callbacks, trPc, last_safety_check, entryInLoss>>
    /\ UNCHANGED <<liveVars, safetyVars, cal, aux>>

\* _handle_connection_loss after the delay: connect() and, when it succeeds,
\* the on_connected and on_reconnected callbacks if the monitor has them
connect ==
    /\ cmPc = "reconnect_delay"
    /\ cmPc' = "sleep"
    /\ \E success \in BOOLEAN :
         IF success
         THEN /\ ibConnected' = TRUE
              /\ connection_healthy' = TRUE
              /\ reconnect_attempts' = 0
              /\ disconnected_calls' = 0
              /\ IF callbacks["live"]
                 THEN \E outcome \in SafetyOutcomes :
                        /\ trading_paused' = on_reconnected(outcome)
                        /\ resume' = Checked(outcome)
                 ELSE /\ resume' = "reconnected"
                      /\ UNCHANGED trading_paused
         ELSE UNCHANGED <<ibConnected, connection_healthy, reconnect_attempts,
                          trading_paused, resume, disconnected_calls>>
    /\ UNCHANGED <<is_monitoring, callbacks, trPc, last_safety_check,
                   entryInLoss, total_disconnections>>
    /\ UNCHANGED <<liveVars, safetyVars, cal, aux>>

\* _main_trading_loop: one pass up to its first await: the gate on
\* trading_paused and ib.isConnected(), _pre_trading_safety_check and the
\* dispatch of _execute_trading_cycle
_main_trading_loop ==
    /\ trPc = "sleep"
    /\ IF ~trading_paused /\ ibConnected
       THEN \E outcome \in SafetyOutcomes : \E day \in CycleDays :
              LET standing == IF resume \in {"reconnected", "checked_bad"}
                              THEN Checked(outcome) ELSE resume
                  safety_ok == outcome \in {"noncritical", "clean"}
              IN  /\ resume' = standing
                  /\ last_safety_check' = (last_safety_check \/ safety_ok)
                  /\ trPc' = IF ~safety_ok
                             THEN (IF outcome = "critical" THEN "emergency"
                                                           ELSE "sleep")
                             ELSE CASE day = "monday"  -> "monday_entry"
                                    [] day = "closed"  -> "sleep"
                                    [] OTHER           -> "cycle"
                  /\ entryInLoss' =
                        (entryInLoss \/ (safety_ok /\ day = "monday"
                                         /\ standing \in NotResumed))
       ELSE UNCHANGED <<trPc, last_safety_check, resume, entryInLoss>>
    /\ UNCHANGED <<ibConnected, connection_healthy, reconnect_attempts,
                   is_monitoring, cmPc, callbacks, trading_paused,
                   disconnected_calls, total_disconnections>>
    /\ UNCHANGED <<liveVars, safetyVars, cal, aux>>

\* the awaited part of the pass ends: emergency actions, Monday entries or
\* another trading cycle return and the loop sleeps
TradingCycleReturns ==
    /\ trPc \in {"emergency", "monday_entry", "cycle"}
    /\ trPc' = "sleep"
    /\ UNCHANGED <<ibConnected, connection_healthy, reconnect_attempts,
                   is_monitoring, cmPc, callbacks, trading_paused,
                   last_safety_check, resume, entryInLoss, disconnected_calls,
                   total_disconnections>>
    /\ UNCHANGED <<liveVars, safetyVars, cal, aux>>

NextConn ==
    \/ run_enhanced_trading_system
    \/ NetworkDrop
    \/ _heartbeat_check
    \/ connect
    \/ _main_trading_loop
    \/ TradingCycleReturns

SpecConn == InitConn /\ [][NextConn]_vars

\* C4: after a connection loss trading resumes only after a successful
\* reconnection and a fresh safety check without CRITICAL violation or error:
\* from the reconnection until such a check, trading_paused is true.
C4_ResumeOnlyAfterCleanCheck ==
    resume \in {"reconnected", "checked_bad"} => trading_paused

\* C5: when the monitor detects a connection loss the on_disconnected handler
\* runs and trading_paused becomes true, and no Monday entry logic starts
\* until trading is resumed.
C5_LossPausesTrading ==
    /\ resume = "lost" => trading_paused
    /\ ~entryInLoss

\* ---------------------------------------------------------------------------
\* SpecCal: get_trading_weeks on every date range of a bounded length,
\* starting on each day of the week
\* ---------------------------------------------------------------------------

MaxSpan == 24

\* holiday calendars: none, a Friday, a Thursday with its Friday (day 11 is
\* the Friday of the live week), a Monday
HolidayCalendars == {{}, {11}, {10, 11}, {4}, {14}, {18}}

\* the days of the live week on which friday_exit_all can start
LiveDays == 7..11

InitCal ==
    /\ LiveIdle
    /\ SafetyIdle
    /\ ConnIdle
    /\ AuxIdle
    /\ start_date \in 0..6
    /\ end_date \in (start_date - 1)..(start_date + MaxSpan)
    /\ weeks = <<>>
    /\ calPc = "config"
    /\ holidays \in HolidayCalendars
    /\ live_week = NoLiveWeek

\* run_backtest calls get_trading_weeks
GetTradingWeeks ==
    /\ calPc = "config"
    /\ weeks' = get_trading_weeks(start_date, end_date)
    /\ calPc' = "returned"
    /\ UNCHANGED <<start_date, end_date, holidays, live_week>>
    /\ UNCHANGED <<liveVars, safetyVars, conn, aux>>

\* friday_exit_all up to its wait: the Monday of today's week and its exit day
FridayExitDate ==
    /\ live_week.pc = "start"
    /\ \E today_ny \in LiveDays :
         LET monday == today_ny - weekday(today_ny)
         IN  live_week' = [live_week EXCEPT !.pc = "exit_day",
                                            !.monday = monday,
                                            !.friday = friday_of_week(monday, holidays)]
    /\ UNCHANGED <<start_date, end_date, weeks, calPc, holidays>>
    /\ UNCHANGED <<liveVars, safetyVars, conn, aux>>

\* monday_entries of the next run, started after the exit day and not later
\* than the following Monday
NextEntryDate ==
    /\ live_week.pc = "exit_day"
    /\ \E now \in (live_week.friday + 1)..(live_week.monday + 7) :
         live_week' = [live_week EXCEPT !.pc = "entry_day",
                                        !.entry = next_monday_trading_date(now, holidays)]
    /\ UNCHANGED <<start_date, end_date, weeks, calPc, holidays>>
    /\ UNCHANGED <<liveVars, safetyVars, conn, aux>>

NextCal == GetTradingWeeks \/ FridayExitDate \/ NextEntryDate

SpecCal == InitCal /\ [][NextCal]_vars

\* the returned weeks that contain day d
WeeksOf(d) == {i \in 1..Len(weeks) : weeks[i][1] <= d /\ d <= weeks[i][2]}

\* C10: for every range with start < end the returned weeks are in
\* chronological order and pairwise non-overlapping, and every Monday to
\* Friday day of [start, end] lies in exactly one returned week.
C10_WeeksPartitionWeekdays ==
    (calPc = "returned" /\ start_date < end_date) =>
        /\ \A i \in 1..Len(weeks) : \A j \in 1..Len(weeks) :
             i < j => /\ weeks[i][1] < weeks[j][1]
                      /\ weeks[i][2] < weeks[j][1]
        /\ \A d \in start_date..end_date :
             weekday(d) <= 4 => Cardinality(WeeksOf(d)) = 1

\* a range that starts mid-week and ends mid-week, with a partial first week,
\* complete weeks and a partial last week
C10_Witness ==
    /\ calPc = "returned"
    /\ weekday(start_date) \in 1..4
    /\ weekday(end_date) \in 0..3
    /\ Len(weeks) >= 4
    /\ weeks[1] = <<start_date, start_date + (4 - weekday(start_date))>>
    /\ weeks[Len(weeks)][2] = end_date
    /\ weekday(weeks[Len(weeks)][1]) = 0

\* C11: for every range with start <= end get_trading_weeks returns at least
\* one week, a range of at most 7 calendar days yields exactly the one week
\* (start, end), and every returned week lies inside the range with its start
\* not after its end.
C11_WeeksNonEmptyAndInRange ==
    (calPc = "returned" /\ start_date <= end_date) =>
        /\ Len(weeks) >= 1
        /\ (end_date - start_date <= 7) => weeks = << <<start_date, end_date>> >>
        /\ \A i \in 1..Len(weeks) :
             /\ start_date <= weeks[i][1]
             /\ weeks[i][1] <= weeks[i][2]
             /\ weeks[i][2] <= end_date

\* a range of five days that starts on a Thursday and crosses a weekend,
\* returned as the single week (start, end)
C11_Witness ==
    /\ calPc = "returned"
    /\ weekday(start_date) = 3
    /\ end_date = start_date + 5
    /\ weeks = << <<start_date, end_date>> >>

\* e is the latest trading day of the days from..(friday - 1)
LatestTradingDayBefore(e, from, friday) ==
    /\ e \in from..(friday - 1)
    /\ is_us_trading_day(e, holidays)
    /\ \A x \in (e + 1)..(friday - 1) : ~is_us_trading_day(x, holidays)

\* the Friday of the calendar week of day d
FridayOf(d) == d - weekday(d) + 4

\* C12: when a holiday falls on a week's Friday, the week ends on the latest
\* trading day before that Friday within the week, never before the week's
\* Monday, and the following week starts on the next Monday; for the live
\* calendar (friday_of_week, next_monday_trading_date) and for the weeks
\* get_trading_weeks returns for replay.
C12_HolidayFridayShiftsWeekEnd ==
    /\ (live_week.pc # "start" /\ live_week.monday + 4 \in holidays) =>
          /\ LatestTradingDayBefore(live_week.friday, live_week.monday,
                                    live_week.monday + 4)
          /\ live_week.friday >= live_week.monday
    /\ (/\ live_week.pc = "entry_day"
        /\ live_week.monday + 4 \in holidays
        /\ is_us_trading_day(live_week.monday + 7, holidays)) =>
          live_week.entry = live_week.monday + 7
    /\ (calPc = "returned" /\ end_date - start_date > 7) =>
          \A i \in 1..Len(weeks) :
              LET friday == FridayOf(weeks[i][1])
              IN  (/\ friday \in holidays
                   /\ friday <= end_date
                   /\ \E d \in weeks[i][1]..(friday - 1) :
                        is_us_trading_day(d, holidays)) =>
                      /\ LatestTradingDayBefore(weeks[i][2], weeks[i][1], friday)
                      /\ i < Len(weeks) => weeks[i + 1][1] = friday + 3

\* ---------------------------------------------------------------------------
\* SpecReplay: run_backtest, once or again, over every assignment of the
\* price series to the six symbols, and direct calls of calculate_momentum
\* ---------------------------------------------------------------------------

MaxRuns == 2

\* expected_return_pct and stop_loss_pct: the defaults, wide limits, none
ReplayConfigs ==
    {[expected_return_pct |-> 200, stop_loss_pct |-> 200],
     [expected_return_pct |-> 1000, stop_loss_pct |-> 500],
     [expected_return_pct |-> 0, stop_loss_pct |-> 0]}

\* the end dates: one long week of six bars, two weeks
ReplayEnds == {7, 11}

\* close prices handed to calculate_momentum, of 0 to 7 samples
PriceSamples ==
    {<<>>, <<100>>, <<100, 110>>, <<100, 90>>,
     <<100, 101, 102, 103, 104, 105>>,
     <<100, 200, 201, 202, 203, 204, 210>>}

InitReplay ==
    /\ LiveIdle
    /\ SafetyIdle
    /\ ConnIdle
    /\ RiskIdle
    /\ start_date = 0
    /\ end_date \in ReplayEnds
    /\ weeks = <<>>
    /\ calPc = "config"
    /\ holidays = {}
    /\ live_week = NoLiveWeek
    /\ data \in [Symbols -> {Series(shape) : shape \in Shapes}]
    /\ config \in ReplayConfigs
    /\ engine = EmptyEngine
    /\ results = <<>>
    /\ momentum = NoMomentum

\* BacktestWorker.run: a BacktestEngine is made and run_backtest is called
RunBacktest ==
    /\ Len(results) < MaxRuns
    /\ LET st == run_backtest(data, config, new_engine(engine),
                              start_date, end_date)
       IN  /\ engine' = [trades |-> st.trades,
                         weekly_selections |-> st.weekly_selections]
           /\ results' = Append(results, calculate_results(st))
    /\ weeks' = get_trading_weeks(start_date, end_date)
    /\ calPc' = "returned"
    /\ UNCHANGED <<start_date, end_date, holidays, live_week>>
    /\ UNCHANGED <<data, config, momentum, riskVars>>
    /\ UNCHANGED <<liveVars, safetyVars, conn>>

\* a call of calculate_momentum with the default number of days
CalculateMomentum ==
    /\ \E prices \in PriceSamples :
         momentum' = [called |-> TRUE, prices |-> prices,
                      value |-> calculate_momentum(prices)]
    /\ UNCHANGED <<data, config, engine, results, riskVars>>
    /\ UNCHANGED <<liveVars, safetyVars, conn, cal>>

NextReplay == RunBacktest \/ CalculateMomentum

SpecReplay == InitReplay /\ [][NextReplay]_vars

\* the symbols with at least two bars inside the week
RankableSymbols(week) ==
    {s \in Symbols : Len(between(data[s], week[1], week[2])) >= 2}

\* a comes before b in the descending order that keeps the universe order
\* among equal scores
RanksBefore(a, b) ==
    \/ a.momentum > b.momentum
    \/ (a.momentum = b.momentum
        /\ UniverseIndex(a.symbol) < UniverseIndex(b.symbol))

\* the scores of the week as calculate_momentum gives them
ScoreOf(s, week) ==
    [symbol |-> s,
     momentum |-> calculate_momentum(Closes(between(data[s], week[1], week[2])))]

\* the trades of a result that were entered on a day
TradesOf(result, monday) ==
    SelectSeq(result.trades_df, LAMBDA t : t.entry_date = monday)

\* C13: in each replayed week the selection is the first min(5, count)
\* elements of the rankable symbols sorted by descending momentum, symbols
\* of equal score in their universe order, and the trades are simulated in
\* exactly that order.
C13_SelectionIsStableTopFive ==
    \A r \in 1..Len(results) :
      \A w \in 1..Len(results[r].weekly_selections) :
        LET sel == results[r].weekly_selections[w]
            stocks == sel.stocks
            rankable_set == RankableSymbols(sel.week)
            chosen == {stocks[i].symbol : i \in 1..Len(stocks)}
            trades == TradesOf(results[r], sel.date)
        IN  /\ Len(stocks) = Min(5, Cardinality(rankable_set))
            /\ Cardinality(chosen) = Len(stocks)
            /\ chosen \subseteq rankable_set
            /\ \A i \in 1..Len(stocks) :
                 stocks[i] = ScoreOf(stocks[i].symbol, sel.week)
            /\ \A i \in 1..Len(stocks) : \A j \in 1..Len(stocks) :
                 i < j => RanksBefore(stocks[i], stocks[j])
            /\ \A u \in rankable_set \ chosen : \A i \in 1..Len(stocks) :
                 RanksBefore(stocks[i], ScoreOf(u, sel.week))
            /\ Len(trades) = Len(stocks)
            /\ \A i \in 1..Len(stocks) : trades[i].symbol = stocks[i].symbol

\* a week with six rankable symbols of which two pairs tie: five are
\* selected, the tied ones in universe order, and traded in that order
C13_Witness ==
    /\ Len(results) >= 1
    /\ Len(results[1].weekly_selections) = 2
    /\ LET sel == results[1].weekly_selections[2]
       IN  /\ Cardinality(RankableSymbols(sel.week)) = 6
           /\ Len(sel.stocks) = 5
           /\ sel.stocks[1].momentum = sel.stocks[2].momentum
           /\ sel.stocks[1].symbol = "S2"
           /\ sel.stocks[2].symbol = "S4"
           /\ sel.stocks[4].momentum > sel.stocks[5].momentum
           /\ Len(TradesOf(results[1], sel.date)) = 5

\* the score the claim gives for n >= 2 closes: the last close against the
\* close Min(lookback, n - 1) bars earlier
LookbackScore(closes) ==
    LET n == Len(closes)
        k == Min(5, n - 1)
    IN  ((closes[n] - closes[n - k]) * 10000) \div closes[n - k]

BarsIn(symbol, from, to) == Len(between(data[symbol], from, to))

\* C14: a symbol with fewer than 2 bars inside a week is never ranked,
\* selected or traded in that week; the score of a ranked symbol with n >= 2
\* bars compares the week's last close with the close min(5, n - 1) bars
\* earlier; calculate_momentum returns 0 for fewer than 2 samples.
C14_TwoBarsNeededToRank ==
    /\ calPc = "returned" =>
         \A w \in 1..Len(weeks) :
           LET ranked == rankings_from(data, 1, weeks[w][1], weeks[w][2])
           IN  \A i \in 1..Len(ranked) :
                 /\ BarsIn(ranked[i].symbol, weeks[w][1], weeks[w][2]) >= 2
                 /\ ranked[i].momentum =
                      LookbackScore(Closes(between(data[ranked[i].symbol],
                                                   weeks[w][1], weeks[w][2])))
    /\ \A r \in 1..Len(results) :
         /\ \A w \in 1..Len(results[r].weekly_selections) :
              LET sel == results[r].weekly_selections[w]
              IN  \A i \in 1..Len(sel.stocks) :
                    BarsIn(sel.stocks[i].symbol, sel.week[1], sel.week[2]) >= 2
         /\ \A t \in 1..Len(results[r].trades_df) :
              LET trade == results[r].trades_df[t]
              IN  BarsIn(trade.symbol, trade.entry_date, trade.exit_date) >= 2
    /\ momentum.called =>
         IF Len(momentum.prices) < 2 THEN momentum.value = 0
         ELSE momentum.value = LookbackScore(momentum.prices)

\* S1 has one bar in the first week and two in the second: it is left out
\* of the first week and selected and traded in the second, and a call of
\* calculate_momentum with seven samples looked five bars back
C14_Witness ==
    /\ Len(results) >= 1
    /\ data["S1"] = Series("thin")
    /\ Len(results[1].weekly_selections) = 2
    /\ \A i \in 1..Len(results[1].weekly_selections[1].stocks) :
         results[1].weekly_selections[1].stocks[i].symbol # "S1"
    /\ results[1].weekly_selections[2].stocks[1].symbol = "S1"
    /\ \E t \in 1..Len(results[1].trades_df) :
         results[1].trades_df[t].symbol = "S1"
    /\ momentum.called
    /\ Len(momentum.prices) = 7
    /\ momentum.value = 500

\* C15: for non-negative expected_return_pct and stop_loss_pct every trade
\* record of simulate_trade has return_pct in [-stop_loss_pct,
\* +expected_return_pct]: the raw return when that is strictly inside,
\* +expected_return_pct when the raw return is at or above it,
\* -stop_loss_pct when the raw return is at or below it.
C15_ReturnWithinLimits ==
    (config.expected_return_pct >= 0 /\ config.stop_loss_pct >= 0) =>
      \A r \in 1..Len(results) : \A t \in 1..Len(results[r].trades_df) :
        LET trade == results[r].trades_df[t]
            raw == raw_return(trade.entry_price, trade.exit_price)
        IN  /\ trade.return_pct >= -config.stop_loss_pct
            /\ trade.return_pct <= config.expected_return_pct
            /\ (raw > -config.stop_loss_pct /\ raw < config.expected_return_pct)
                  => trade.return_pct = raw
            /\ raw >= config.expected_return_pct
                  => trade.return_pct = config.expected_return_pct
            /\ raw <= -config.stop_loss_pct
                  => trade.return_pct = -config.stop_loss_pct

\* one run with a trade stopped at the target, one stopped at the loss limit
\* and one closed at its raw return
C15_Witness ==
    /\ Len(results) >= 1
    /\ config = [expected_return_pct |-> 200, stop_loss_pct |-> 200]
    /\ \E a, b, c \in 1..Len(results[1].trades_df) :
         LET ta == results[1].trades_df[a]
             tb == results[1].trades_df[b]
             tc == results[1].trades_df[c]
         IN  /\ raw_return(ta.entry_price, ta.exit_price) = 1000
             /\ ta.return_pct = 200
             /\ raw_return(tb.entry_price, tb.exit_price) = -500
             /\ tb.return_pct = -200
             /\ raw_return(tc.entry_price, tc.exit_price) = 100
             /\ tc.return_pct = 100

PositionArgs ==
    [kind : {"position"},
     market_value : {-5000, 0, 20000, 20001, 30001},
     volatility : {25, 26, 40, 41},
     unrealized_pnl : {-4000, -2500, -1100, 0, 500},
     sector : {"Technology", "ETF-Leveraged", "Energy"}]

\* arguments of _calculate_portfolio_risk_score
PortfolioArgs ==
    [kind : {"portfolio"},
     total_value : {0, 100000, 200001, 400001},
     max_concentration : {0, 15, 16, 20, 21, 100},
     sector_concentrations : {<<>>, <<30>>, <<31, 20>>, <<40, 41>>},
     var_95 : {0, 10001, 15001, 40001, 60001}]

\* market values of the positions of a portfolio: none, one, two, seven at
\* or below the limit, seven with one above, five all above, a short one
\* beside a long one, a net short portfolio
ConcentrationArgs ==
    [kind : {"concentration"},
     values : {<<>>, <<100>>, <<60, 40>>,
               <<15, 15, 14, 14, 14, 14, 14>>,
               <<16, 14, 14, 14, 14, 14, 14>>,
               <<20, 20, 20, 20, 20>>,
               <<-50, 100>>, <<-100, 50>>}]

InitRisk ==
    /\ LiveIdle
    /\ SafetyIdle
    /\ ConnIdle
    /\ CalIdle
    /\ ReplayIdle
    /\ risk_in \in PositionArgs \cup PortfolioArgs \cup ConcentrationArgs
                  \cup RegimeArgs \cup VixRegimeArgs
    /\ risk_out = NoRisk

\* _calculate_position_risk calls _calculate_position_risk_score
PositionRiskScore ==
    /\ risk_in.kind = "position"
    /\ risk_out = NoRisk
    /\ risk_out' = [kind |-> "position",
                    risk_score |->
                        _calculate_position_risk_score(
                            risk_in.market_value, risk_in.volatility,
                            risk_in.unrealized_pnl, risk_in.sector)]
    /\ UNCHANGED <<risk_in, replay>>
    /\ UNCHANGED <<liveVars, safetyVars, conn, cal>>

\* _calculate_portfolio_risk calls _calculate_portfolio_risk_score
PortfolioRiskScore ==
    /\ risk_in.kind = "portfolio"
    /\ risk_out = NoRisk
    /\ risk_out' = [kind |-> "portfolio",
                    risk_score |->
                        _calculate_portfolio_risk_score(
                            risk_in.total_value, risk_in.max_concentration,
                            risk_in.sector_concentrations, risk_in.var_95)]
    /\ UNCHANGED <<risk_in, replay>>
    /\ UNCHANGED <<liveVars, safetyVars, conn, cal>>

\* perform_safety_check on a portfolio with these market values: the
\* violations of the concentration check
ConcentrationCheck ==
    /\ risk_in.kind = "concentration"
    /\ risk_out = NoRisk
    /\ risk_out' = [kind |-> "concentration",
                    violations |-> concentration_violation(risk_in.values)]
    /\ UNCHANGED <<risk_in, replay>>
    /\ UNCHANGED <<liveVars, safetyVars, conn, cal>>

\* monday_entries calls spy_regime_ok
SpyRegimeOk ==
    /\ risk_in.kind = "regime"
    /\ risk_out = NoRisk
    /\ risk_out' = [kind |-> "regime",
                    ok |-> spy_regime_ok(risk_in.ema_len, risk_in.max_vix,
                                         risk_in.spy, risk_in.vix)]
    /\ UNCHANGED <<risk_in, replay>>
    /\ UNCHANGED <<liveVars, safetyVars, conn, cal>>

\* get_vix_regime_async calls check_vix_regime
CheckVixRegime ==
    /\ risk_in.kind = "vix_regime"
    /\ risk_out = NoRisk
    /\ risk_out' = [kind |-> "vix_regime",
                    vix_ok |-> check_vix_regime(risk_in.vix_level, risk_in.max_vix)]
    /\ UNCHANGED <<risk_in, replay>>
    /\ UNCHANGED <<liveVars, safetyVars, conn, cal>>

NextRisk ==
    \/ PositionRiskScore
    \/ PortfolioRiskScore
    \/ ConcentrationCheck
    \/ SpyRegimeOk
    \/ CheckVixRegime

SpecRisk == InitRisk /\ [][NextRisk]_vars

\* C17: the portfolio risk score and the position risk score lie in
\* [0, 100] for every input.
C17_RiskScoresInRange ==
    risk_out.kind \in {"position", "portfolio"} =>
        risk_out.risk_score >= 0 /\ risk_out.risk_score <= 100

\* a losing, large, volatile technology position scores 85, and so does a
\* large, concentrated portfolio with a high value at risk
C17_Witness ==
    \/ /\ risk_out.kind = "position"
       /\ risk_in.market_value = 30001
       /\ risk_in.unrealized_pnl = -4000
       /\ risk_out.risk_score = 85
    \/ /\ risk_out.kind = "portfolio"
       /\ risk_in.total_value = 400001
       /\ risk_out.risk_score = 85

\* v is above the limit as a share of the sum of the values
AboveLimit(v, values) == SumSeq(values) > 0 /\ v * 100 > 15 * SumSeq(values)

ConcentrationViolations ==
    SelectSeq(risk_out.violations,
              LAMBDA v : v.type = "position_concentration_exceeded")

\* C18: a safety check yields exactly one position_concentration_exceeded
\* violation, of severity MEDIUM, when the largest single-position
\* concentration is strictly above the limit, however many positions
\* exceed it, and none when it is at or below the limit.
C18_OneConcentrationViolation ==
    risk_out.kind = "concentration" =>
        IF \E i \in 1..Len(risk_in.values) :
               AboveLimit(risk_in.values[i], risk_in.values)
        THEN /\ Len(ConcentrationViolations) = 1
             /\ ConcentrationViolations[1].severity = "MEDIUM"
        ELSE ConcentrationViolations = <<>>

\* five positions of 20% each, all above the limit: one violation
C18_Witness ==
    /\ risk_out.kind = "concentration"
    /\ risk_in.values = <<20, 20, 20, 20, 20>>
    /\ Len(ConcentrationViolations) = 1

\* the proxy's bars suffice for the moving average of the configured length
SpyAvailable == risk_in.ema_len > 0 /\ Len(risk_in.spy) > risk_in.ema_len + 2

\* a volatility ceiling is configured and the request returned a bar
VixAvailable ==
    risk_in.max_vix > 0 /\ risk_in.vix.status = "ok" /\ risk_in.vix.bars # <<>>

SpyBlocks == SpyAvailable /\ ~close_above_ema(risk_in.spy, risk_in.ema_len)

VixBlocks ==
    VixAvailable /\ risk_in.vix.bars[Len(risk_in.vix.bars)] > risk_in.max_vix

\* C22: the regime filter fails open on missing data: with the proxy's bars
\* missing or too few for the moving average, or the volatility data missing
\* or its retrieval raising, that check counts as passed; the filter returns
\* false only when an available proxy close is not above its moving average
\* or an available volatility value is above the ceiling.
C22_RegimeFailsOpen ==
    /\ risk_out.kind = "regime" =>
          /\ ~risk_out.ok => SpyBlocks \/ VixBlocks
          /\ ~SpyAvailable => (risk_out.ok <=> ~VixBlocks)
          /\ ~VixAvailable => (risk_out.ok <=> ~SpyBlocks)
    /\ risk_out.kind = "vix_regime" =>
          (~risk_out.vix_ok =>
              /\ risk_in.max_vix > 0
              /\ risk_in.vix_level # <<>>
              /\ risk_in.vix_level[1] > risk_in.max_vix)

\* both checks are configured, the proxy has one bar too few and the
\* volatility request returns no bar: the filter passes
C22_Witness ==
    /\ risk_out.kind = "regime"
    /\ risk_in.ema_len = 3
    /\ Len(risk_in.spy) = 5
    /\ risk_in.max_vix = 25
    /\ risk_in.vix.status = "ok"
    /\ risk_in.vix.bars = <<>>
    /\ risk_out.ok

\* C19: in every safety check, the first one after start-up and one made
\* with a day-start value of zero included, a portfolio daily P&L below
\* -max_daily_loss produces a CRITICAL daily_loss_exceeded violation.
C19_DailyLossAlwaysFlagged ==
    \A r \in Runners :
        (run[r].report.checked /\ run[r].report.daily_pnl < -max_daily_loss) =>
            \E i \in 1..Len(run[r].report.violations) :
                run[r].report.violations[i] =
                    Violation("daily_loss_exceeded", "CRITICAL")

EmergencyStop(r) ==
    HasType(CriticalOf(run[r].report.violations), "emergency_stop_triggered")

DailyLossOnly(r) ==
    /\ HasType(CriticalOf(run[r].report.violations), "daily_loss_exceeded")
    /\ ~EmergencyStop(r)

\* ---------------------------------------------------------------------------
\* SpecEscalation: the safety monitor task alone, the trader's loop not
\* running, with prices that also fall unevenly
\* ---------------------------------------------------------------------------

InitEscalation ==
    /\ LiveIdle
    /\ ConnIdle
    /\ CalIdle
    /\ AuxIdle
    /\ mkt = "flat"
    /\ pf = Holding
    /\ orders = NoOrders
    /\ mgr = [r \in Runners |-> NewManager]
    /\ run = [r \in Runners |->
                 IF r = "task" THEN RunnerIdle
                 ELSE [RunnerIdle EXCEPT !.pc = "off"]]
    /\ journal = 0

\* environment: prices move to a scenario of unequal losses
UnevenMove ==
    /\ \E m \in UnevenMarkets \ {mkt} : mkt' = m
    /\ UNCHANGED <<pf, orders, mgr, run, journal>>
    /\ UNCHANGED <<liveVars, conn, cal, aux>>

NextEscalation ==
    \/ run_safety_monitor
    \/ _emergency_close_all_positions("task")
    \/ MarketMove
    \/ UnevenMove
    \/ BrokerFillsSell

SpecEscalation == InitEscalation /\ [][NextEscalation]_vars

\* C20: execute_emergency_actions follows the escalation policy: for a
\* CRITICAL emergency_stop_triggered violation a SELL is commanded for every
\* long position; for a CRITICAL daily_loss_exceeded violation without an
\* emergency stop SELL orders go only to losing positions, worst loss first,
\* and nothing is liquidated in full; without a CRITICAL violation no order
\* is placed.
C20_EscalationPolicy ==
    \A r \in Runners :
        LET rep == run[r].report
            sold == run[r].sold
        IN  rep.checked =>
            /\ (EmergencyStop(r) /\ run[r].pc = "idle") =>
                  \A s \in rep.long : \E i \in 1..Len(sold) :
                      sold[i] = Sold(s, "emergency_close_all")
            /\ DailyLossOnly(r) =>
                  /\ \A i \in 1..Len(sold) :
                       /\ sold[i].action = "close_losing_positions"
                       /\ sold[i].symbol \in rep.long
                       /\ rep.unrealized_pnl[sold[i].symbol] < 0
                  /\ \A i \in 1..Len(sold) : \A j \in 1..Len(sold) :
                       i < j => rep.unrealized_pnl[sold[i].symbol]
                                  <= rep.unrealized_pnl[sold[j].symbol]
            /\ CriticalOf(rep.violations) = <<>> => sold = <<>>

\* the monitor met a daily loss without an emergency stop while both
\* positions were losing, and sold the worse one first
C20_Witness ==
    /\ DailyLossOnly("task")
    /\ run["task"].report.long = {"AAPL", "XOM"}
    /\ run["task"].sold = << Sold("XOM", "close_losing_positions"),
                             Sold("AAPL", "close_losing_positions") >>

\* the SELL orders one call of execute_emergency_actions issued for s
SellsOf(r, s) == {i \in 1..Len(run[r].sold) : run[r].sold[i].symbol = s}

\* C28: within one call of execute_emergency_actions at most one SELL order
\* is issued per symbol and the total quantity sold for a symbol never
\* exceeds the quantity held, for every list of violations, a list with both
\* a daily_loss_exceeded and an emergency_stop_triggered CRITICAL violation
\* included. Every SELL is for the whole position, so two of them exceed it.
C28_OneSellPerSymbol ==
    \A r \in Runners : \A s \in SafetySyms :
        /\ Cardinality(SellsOf(r, s)) <= 1
        /\ Cardinality(SellsOf(r, s)) * Holding[s] <= Holding[s]

\* ---------------------------------------------------------------------------
\* SpecMonitor: a ConnectionMonitor on its own, connected and monitoring,
\* with or without callbacks registered on it by set_callbacks
\* ---------------------------------------------------------------------------

InitMonitor ==
    /\ LiveIdle
    /\ SafetyIdle
    /\ CalIdle
    /\ AuxIdle
    /\ ibConnected = TRUE
    /\ connection_healthy = TRUE
    /\ reconnect_attempts = 0
    /\ is_monitoring = TRUE
    /\ cmPc = "sleep"
    /\ \E registered \in BOOLEAN :
         callbacks = [m \in Monitors |-> m = "live" /\ registered]
    /\ trading_paused = FALSE
    /\ trPc = "start"
    /\ last_safety_check = FALSE
    /\ resume = "none"
    /\ entryInLoss = FALSE
    /\ disconnected_calls = 0
    /\ total_disconnections = 0

NextMonitor ==
    \/ NetworkDrop
    \/ _heartbeat_check
    \/ connect

SpecMonitor == InitMonitor /\ [][NextMonitor]_vars

\* the fields of the ConnectionMonitor
monitorVars == <<connection_healthy, reconnect_attempts, is_monitoring, cmPc,
                 disconnected_calls, total_disconnections>>

\* C29: reconnect_attempts never exceeds max_reconnect_attempts and every
\* successful connect resets it to 0; with the connection still down after
\* max_reconnect_attempts failed attempts, the next heartbeat makes no
\* further attempt and sets is_monitoring to false, which ends the
\* monitoring loop; on_disconnected is invoked exactly once per loss
\* episode, not once per failed heartbeat.
C29_ReconnectBoundedOneCallback ==
    [][/\ reconnect_attempts' <= max_reconnect_attempts
       /\ (cmPc = "reconnect_delay" /\ ibConnected') => reconnect_attempts' = 0
       /\ (is_monitoring /\ cmPc = "sleep" /\ ~connection_healthy
              /\ reconnect_attempts = max_reconnect_attempts) =>
             \/ monitorVars' = monitorVars
             \/ /\ ~is_monitoring'
                /\ reconnect_attempts' = reconnect_attempts
                /\ cmPc' = "sleep"
                /\ ~ibConnected'
       /\ ~is_monitoring => (monitorVars' = monitorVars /\ ~ibConnected')
       /\ disconnected_calls' =
             IF callbacks["live"] /\ ~connection_healthy' THEN 1 ELSE 0]_vars

\* the monitor gave up after the fifth failed attempt, having called
\* on_disconnected once
C29_Witness ==
    /\ callbacks["live"]
    /\ ~is_monitoring
    /\ ~ibConnected
    /\ reconnect_attempts = max_reconnect_attempts
    /\ disconnected_calls = 1

\* the sum of profit_loss over the trades of a result that were closed on
\* or before a day
ProfitUpTo(result, day) ==
    SumSeq(ProfitLoss(SelectSeq(result.trades_df, LAMBDA t : t.exit_date <= day)))

\* C30: in replay the equity ledger stays consistent with the trade list:
\* after every processed week the recorded equity is the starting portfolio
\* value plus the sum of profit_loss over all trades recorded so far, each
\* trade counted once; at most 5 trades are added per week; a week with no
\* rankable symbol adds neither a trade nor an equity point.
C30_EquityMatchesTrades ==
    \A r \in 1..Len(results) :
      LET res == results[r]
          curve == res.equity_curve
          sels == res.weekly_selections
      IN  /\ Len(curve) = 1 + Len(sels)
          /\ curve[1].equity = capital_per_trade * Len(Universe)
          /\ \A k \in 1..Len(sels) :
               /\ curve[k + 1].date = sels[k].week[2]
               /\ curve[k + 1].equity
                     = curve[1].equity + ProfitUpTo(res, curve[k + 1].date)
          /\ \A a \in 1..Len(res.trades_df) : \A b \in 1..Len(res.trades_df) :
               (/\ res.trades_df[a].symbol = res.trades_df[b].symbol
                /\ res.trades_df[a].entry_date = res.trades_df[b].entry_date)
                  => a = b
          /\ \A w \in 1..Len(weeks) :
               /\ Len(TradesOf(res, weeks[w][1])) <= 5
               /\ RankableSymbols(weeks[w]) = {} =>
                     /\ TradesOf(res, weeks[w][1]) = <<>>
                     /\ \A k \in 1..Len(sels) : sels[k].week # weeks[w]
                     /\ \A k \in 2..Len(curve) : curve[k].date # weeks[w][2]

\* no symbol has two bars in the first week and all six have them in the
\* second: one equity point and five trades were added, for the second week
C30_Witness ==
    /\ Len(results) >= 1
    /\ Len(weeks) = 2
    /\ RankableSymbols(weeks[1]) = {}
    /\ Len(results[1].equity_curve) = 2
    /\ Len(results[1].trades_df) = 5
    /\ results[1].equity_curve[2].equity # results[1].equity_curve[1].equity

====
